---- MODULE Spec2Model ----
(***************************************************************************)
(* A model of the zx64c compiler pipeline: the type checker                *)
(* (src/zx64c/typechecker/__init__.py), the scanner's indentation tracking *)
(* (src/zx64c/scanner.py) and the command-line driver (src/zx64c/main.py). *)
(*                                                                         *)
(* The type checker is a recursive visitor.  Its traversal of a Program is *)
(* modelled as the sequence of visits it performs: entering a function,    *)
(* visiting one simple statement, entering the Block of an `if`, leaving a *)
(* Block, leaving a function.  The tree being traversed is chosen node by  *)
(* node from bounded menus, so every behaviour is the check of one Program.*)
(***************************************************************************)
EXTENDS Integers, Sequences, FiniteSets

(***************************************************************************)
(* Bounds of the model.                                                    *)
(***************************************************************************)
MaxFunctions == 2
MaxNodes == 5
MaxDepth == 2
MaxParameters == 2
MaxLines == 3
MaxIndent == 2
MaxLexemes == 3
MaxStatements == 1

(***************************************************************************)
(* zx64c.types                                                             *)
(***************************************************************************)
VOID == [k |-> "void"]
U8 == [k |-> "u8"]
I8 == [k |-> "i8"]
BOOL == [k |-> "bool"]
TypeIdentifier(name) == [k |-> "TypeIdentifier", name |-> name]
Callable(return_type, parameter_types) ==
    [k |-> "Callable", return_type |-> return_type, parameter_types |-> parameter_types]

\* An is_numerical that only u8 answers with True.
is_numericalUnsignedOnly(t) == t.k = "u8"

is_numerical(t) == t.k \in {"u8", "i8", "NumberLiteral"}
isTypeIdentifier(t) == t.k = "TypeIdentifier"
isCallable(t) == t.k = "Callable"

(***************************************************************************)
(* zx64c.ast: source contexts and expression nodes                         *)
(***************************************************************************)
SourceContext(line, column) == [line |-> line, column |-> column]

Unsignedint(ctx) == [node |-> "Unsignedint", context |-> ctx]
Bool(ctx) == [node |-> "Bool", context |-> ctx]
Identifier(value, ctx) == [node |-> "Identifier", value |-> value, context |-> ctx]
Negation(expression, ctx) ==
    [node |-> "Negation", expression |-> expression, context |-> ctx]
Addition(lhs, rhs, ctx) == [node |-> "Addition", lhs |-> lhs, rhs |-> rhs, context |-> ctx]
Equal(lhs, rhs, ctx) == [node |-> "Equal", lhs |-> lhs, rhs |-> rhs, context |-> ctx]
FunctionCall(function_name, arguments, ctx) ==
    [node |-> "FunctionCall", function_name |-> function_name,
     arguments |-> arguments, context |-> ctx]

PrintStatement(expression, ctx) == [node |-> "Print", expression |-> expression, context |-> ctx]
Let(name, var_type, rhs, ctx) ==
    [node |-> "Let", name |-> name, var_type |-> var_type, rhs |-> rhs, context |-> ctx]
Assignment(name, rhs, ctx) ==
    [node |-> "Assignment", name |-> name, rhs |-> rhs, context |-> ctx]
Return(expr, ctx) == [node |-> "Return", expr |-> expr, context |-> ctx]
If(condition, consequence, ctx) ==
    [node |-> "If", condition |-> condition, consequence |-> consequence, context |-> ctx]
Parameter(name, type_id) == [name |-> name, type_id |-> type_id]

(***************************************************************************)
(* zx64c.typechecker.errors                                                *)
(***************************************************************************)
TypeMismatchError(expected, received, ctx) ==
    [e |-> "TypeMismatch", expected |-> expected, received |-> received, context |-> ctx]
ExpectedNumericalTypeError(got, ctx) ==
    [e |-> "ExpectedNumericalType", got |-> got, context |-> ctx]
UndefinedVariableError(name, ctx) ==
    [e |-> "UndefinedVariable", name |-> name, context |-> ctx]
UndefinedTypeError(var_type, ctx) ==
    [e |-> "UndefinedType", var_type |-> var_type, context |-> ctx]
AlreadyDefinedVariableError(name, ctx) ==
    [e |-> "AlreadyDefinedVariable", name |-> name, context |-> ctx]
NoReturnError(expected, function_name, ctx) ==
    [e |-> "NoReturn", expected |-> expected, function_name |-> function_name,
     context |-> ctx]
NotFunctionCall(name, ctx) == [e |-> "NotFunctionCall", name |-> name, context |-> ctx]
TooManyArguments(name, got, expected, ctx) ==
    [e |-> "TooManyArguments", name |-> name, got |-> got, expected |-> expected,
     context |-> ctx]
NotEnoughArguments(name, got, expected, ctx) ==
    [e |-> "NotEnoughArguments", name |-> name, got |-> got, expected |-> expected,
     context |-> ctx]
CombinedTypecheckError(errors) == [e |-> "Combined", errors |-> errors]

\* The outcome of a visit: the Type it returns or the TypecheckError it raises.
Returns(t) == [raised |-> FALSE, type |-> t]
Raises(err) == [raised |-> TRUE, error |-> err]

(***************************************************************************)
(* Scope and EnvironmentStack                                              *)
(***************************************************************************)
EmptyMap == [n \in {} |-> VOID]
MapPut(m, key, val) == [n \in (DOMAIN m) \cup {key} |-> IF n = key THEN val ELSE m[n]]

Scope == [variable_types |-> EmptyMap, defined_types |-> EmptyMap]
ScopeAddVariable(scope, name, var_type) ==
    [scope EXCEPT !.variable_types = MapPut(@, name, var_type)]
ScopeAddType(scope, name, type) ==
    [scope EXCEPT !.defined_types = MapPut(@, name, type)]

push_scope(scopes, scope) == Append(scopes, scope)
pop_scope(scopes) == SubSeq(scopes, 1, Len(scopes) - 1)

has_type(scopes, name) ==
    \E i \in 1..Len(scopes) : name \in DOMAIN scopes[i].defined_types

\* The innermost scope that defines the type name (0 if none).
InnermostWithType(scopes, name) ==
    LET S == {i \in 1..Len(scopes) : name \in DOMAIN scopes[i].defined_types}
    IN IF S = {} THEN 0 ELSE CHOOSE i \in S : \A j \in S : j <= i

resolve_type(scopes, type_identifier) ==
    scopes[InnermostWithType(scopes, type_identifier.name)]
        .defined_types[type_identifier.name]

has_variable(scopes, name) ==
    \E i \in 1..Len(scopes) : name \in DOMAIN scopes[i].variable_types

\* A search for the variable name that starts at the outermost scope.
OutermostWithVariable(scopes, name) ==
    LET S == {i \in 1..Len(scopes) : name \in DOMAIN scopes[i].variable_types}
    IN IF S = {} THEN 0 ELSE CHOOSE i \in S : \A j \in S : i <= j

\* The innermost scope that binds the variable name (0 if none).
InnermostWithVariable(scopes, name) ==
    LET S == {i \in 1..Len(scopes) : name \in DOMAIN scopes[i].variable_types}
    IN IF S = {} THEN 0 ELSE CHOOSE i \in S : \A j \in S : j <= i

get_variable_type(scopes, name, ctx) ==
    LET i == InnermostWithVariable(scopes, name)
    IN IF i = 0 THEN Raises(UndefinedVariableError(name, ctx))
       ELSE Returns(scopes[i].variable_types[name])

\* EnvironmentStack.add_variable: the scopes afterwards, or the error raised.
add_variable(scopes, name, var_type, ctx) ==
    IF isTypeIdentifier(var_type) /\ ~has_type(scopes, var_type.name)
    THEN [raised |-> TRUE, error |-> UndefinedTypeError(var_type, ctx), scopes |-> scopes]
    ELSE LET t == IF isTypeIdentifier(var_type) THEN resolve_type(scopes, var_type)
                  ELSE var_type
         IN [raised |-> FALSE,
             scopes |-> [scopes EXCEPT ![Len(scopes)] = ScopeAddVariable(@, name, t)]]

(***************************************************************************)
(* TypecheckerVisitor: expressions.  They read the environment only.       *)
(***************************************************************************)
RECURSIVE VisitExpression(_, _)
RECURSIVE VisitArguments(_, _, _, _, _)

\* visit_function_call's loop over zip(arguments, parameter_types), from index i.
VisitArguments(scopes, node, function_type, i, n) ==
    IF i > n THEN Returns(function_type.return_type)
    ELSE LET arg == VisitExpression(scopes, node.arguments[i])
         IN IF arg.raised THEN arg
            ELSE IF arg.type # function_type.parameter_types[i]
            THEN Raises(TypeMismatchError(function_type.parameter_types[i], arg.type,
                                          node.context))
            ELSE VisitArguments(scopes, node, function_type, i + 1, n)

Min(a, b) == IF a < b THEN a ELSE b

\* A visit_function_call that counts one argument too many.
TooManyOffByOne(arguments_count, parameters_count) == arguments_count >= parameters_count

\* The arity tests of visit_function_call.
TooMany(arguments_count, parameters_count) == arguments_count > parameters_count
NotEnough(arguments_count, parameters_count) == arguments_count < parameters_count

visit_function_call(scopes, node) ==
    LET function_type == get_variable_type(scopes, node.function_name, node.context)
    IN IF function_type.raised THEN function_type
       ELSE IF ~isCallable(function_type.type)
       THEN Raises(NotFunctionCall(node.function_name, node.context))
       ELSE LET arguments_count == Len(node.arguments)
                parameters_count == Len(function_type.type.parameter_types)
            IN IF TooMany(arguments_count, parameters_count)
               THEN Raises(TooManyArguments(node.function_name, arguments_count,
                                            parameters_count, node.context))
               ELSE IF NotEnough(arguments_count, parameters_count)
               THEN Raises(NotEnoughArguments(node.function_name, arguments_count,
                                              parameters_count, node.context))
               ELSE VisitArguments(scopes, node, function_type.type, 1,
                                   Min(arguments_count, parameters_count))

visit_equal(scopes, node) ==
    LET lhs == VisitExpression(scopes, node.lhs)
        rhs == VisitExpression(scopes, node.rhs)
    IN IF lhs.raised THEN lhs
       ELSE IF rhs.raised THEN rhs
       ELSE IF lhs.type # rhs.type
       THEN Raises(TypeMismatchError(lhs.type, rhs.type, node.lhs.context))
       ELSE Returns(BOOL)

\* A visit_addition that takes the type of the left operand for the sum.
visit_additionOfLeftType(scopes, node) ==
    LET lhs == VisitExpression(scopes, node.lhs)
        rhs == VisitExpression(scopes, node.rhs)
    IN IF lhs.raised THEN lhs
       ELSE IF rhs.raised THEN rhs
       ELSE IF ~is_numerical(lhs.type)
       THEN Raises(ExpectedNumericalTypeError(lhs.type, node.lhs.context))
       ELSE IF ~is_numerical(rhs.type)
       THEN Raises(ExpectedNumericalTypeError(rhs.type, node.rhs.context))
       ELSE Returns(lhs.type)

visit_addition(scopes, node) ==
    LET lhs == VisitExpression(scopes, node.lhs)
        rhs == VisitExpression(scopes, node.rhs)
    IN IF lhs.raised THEN lhs
       ELSE IF rhs.raised THEN rhs
       ELSE IF ~is_numerical(lhs.type)
       THEN Raises(ExpectedNumericalTypeError(lhs.type, node.lhs.context))
       ELSE IF ~is_numerical(rhs.type)
       THEN Raises(ExpectedNumericalTypeError(rhs.type, node.rhs.context))
       ELSE IF lhs.type # rhs.type
       THEN Raises(TypeMismatchError(lhs.type, rhs.type, node.lhs.context))
       ELSE Returns(lhs.type)

visit_negation(scopes, node) ==
    LET expression == VisitExpression(scopes, node.expression)
    IN IF expression.raised THEN expression
       ELSE IF ~is_numerical(expression.type)
       THEN Raises(ExpectedNumericalTypeError(expression.type, node.context))
       ELSE IF expression.type = U8 THEN Returns(I8)
       ELSE Returns(expression.type)

visit_identifier(scopes, node) == get_variable_type(scopes, node.value, node.context)

VisitExpression(scopes, node) ==
    CASE node.node = "Unsignedint" -> Returns(U8)
      [] node.node = "Bool" -> Returns(BOOL)
      [] node.node = "Identifier" -> visit_identifier(scopes, node)
      [] node.node = "Negation" -> visit_negation(scopes, node)
      [] node.node = "Addition" -> visit_addition(scopes, node)
      [] node.node = "Equal" -> visit_equal(scopes, node)
      [] node.node = "FunctionCall" -> visit_function_call(scopes, node)

(***************************************************************************)
(* TypecheckerVisitor: simple statements.  A visit yields the environment  *)
(* and the returned-flag it leaves behind, and what it returned or raised. *)
(***************************************************************************)
Outcome(scopes, return_has_occured, result) ==
    [scopes |-> scopes, return_has_occured |-> return_has_occured, result |-> result]

visit_print(scopes, current_function_return_type, return_has_occured, node) ==
    LET expression == VisitExpression(scopes, node.expression)
    IN Outcome(scopes, return_has_occured,
               IF expression.raised THEN expression ELSE Returns(VOID))

\* The test of visit_let that decides AlreadyDefinedVariableError.
LetNameTaken(scopes, name) == has_variable(scopes, name)

\* A visit_let that binds the name only when the types agree.
visit_letBindingOnSuccess(scopes, current_function_return_type, return_has_occured, node) ==
    LET rhs == VisitExpression(scopes, node.rhs)
    IN IF rhs.raised THEN Outcome(scopes, return_has_occured, rhs)
       ELSE IF LetNameTaken(scopes, node.name)
       THEN Outcome(scopes, return_has_occured,
                    Raises(AlreadyDefinedVariableError(node.name, node.context)))
       ELSE LET added == add_variable(scopes, node.name, node.var_type, node.context)
            IN IF added.raised
               THEN Outcome(scopes, return_has_occured, Raises(added.error))
               ELSE LET variable_type ==
                            get_variable_type(added.scopes, node.name, node.context).type
                    IN IF is_numerical(variable_type) /\ is_numerical(rhs.type)
                       THEN Outcome(added.scopes, return_has_occured, Returns(VOID))
                       ELSE IF variable_type # rhs.type
                       THEN Outcome(scopes, return_has_occured,
                                    Raises(TypeMismatchError(variable_type, rhs.type,
                                                             node.context)))
                       ELSE Outcome(added.scopes, return_has_occured, Returns(VOID))

visit_let(scopes, current_function_return_type, return_has_occured, node) ==
    LET rhs == VisitExpression(scopes, node.rhs)
    IN IF rhs.raised THEN Outcome(scopes, return_has_occured, rhs)
       ELSE IF LetNameTaken(scopes, node.name)
       THEN Outcome(scopes, return_has_occured,
                    Raises(AlreadyDefinedVariableError(node.name, node.context)))
       ELSE LET added == add_variable(scopes, node.name, node.var_type, node.context)
            IN IF added.raised
               THEN Outcome(scopes, return_has_occured, Raises(added.error))
               ELSE LET variable_type ==
                            get_variable_type(added.scopes, node.name, node.context).type
                    IN IF is_numerical(variable_type) /\ is_numerical(rhs.type)
                       THEN Outcome(added.scopes, return_has_occured, Returns(VOID))
                       ELSE IF variable_type # rhs.type
                       THEN Outcome(added.scopes, return_has_occured,
                                    Raises(TypeMismatchError(variable_type, rhs.type,
                                                             node.context)))
                       ELSE Outcome(added.scopes, return_has_occured, Returns(VOID))

visit_assignment(scopes, current_function_return_type, return_has_occured, node) ==
    LET rhs == VisitExpression(scopes, node.rhs)
        variable_type == get_variable_type(scopes, node.name, node.context)
    IN Outcome(scopes, return_has_occured,
               IF rhs.raised THEN rhs
               ELSE IF variable_type.raised THEN variable_type
               ELSE IF variable_type.type # rhs.type
               THEN Raises(TypeMismatchError(variable_type.type, rhs.type, node.context))
               ELSE Returns(VOID))

\* A visit_return that notes the return before it compares the types.
visit_returnNotedFirst(scopes, current_function_return_type, return_has_occured, node) ==
    LET return_type == VisitExpression(scopes, node.expr)
    IN IF return_type.raised THEN Outcome(scopes, return_has_occured, return_type)
       ELSE IF return_type.type # current_function_return_type
       THEN Outcome(scopes, TRUE,
                    Raises(TypeMismatchError(current_function_return_type,
                                             return_type.type, node.context)))
       ELSE Outcome(scopes, TRUE, Returns(VOID))

visit_return(scopes, current_function_return_type, return_has_occured, node) ==
    LET return_type == VisitExpression(scopes, node.expr)
    IN IF return_type.raised THEN Outcome(scopes, return_has_occured, return_type)
       ELSE IF return_type.type # current_function_return_type
       THEN Outcome(scopes, return_has_occured,
                    Raises(TypeMismatchError(current_function_return_type,
                                             return_type.type, node.context)))
       ELSE Outcome(scopes, TRUE, Returns(VOID))

\* A visit_if that takes any numerical condition as well.
ConditionAcceptedOrNumerical(condition_type) ==
    condition_type = BOOL \/ is_numerical(condition_type)

\* The test of visit_if on the type of the condition.
ConditionAccepted(condition_type) == condition_type = BOOL

RECURSIVE VisitStatement(_, _, _, _)

\* visit_if when the consequence is a statement, not a Block.
visit_if(scopes, current_function_return_type, return_has_occured, node) ==
    LET condition == VisitExpression(scopes, node.condition)
    IN IF condition.raised THEN Outcome(scopes, return_has_occured, condition)
       ELSE IF ~ConditionAccepted(condition.type)
       THEN Outcome(scopes, return_has_occured,
                    Raises(TypeMismatchError(BOOL, condition.type,
                                             node.condition.context)))
       ELSE LET consequence == VisitStatement(scopes, current_function_return_type,
                                              return_has_occured, node.consequence)
            IN IF consequence.result.raised THEN consequence
               ELSE Outcome(consequence.scopes, consequence.return_has_occured,
                            Returns(VOID))

\* An expression used as a statement: its type is the statement's value.
VisitExpressionStatement(scopes, current_function_return_type, return_has_occured, node) ==
    Outcome(scopes, return_has_occured, VisitExpression(scopes, node))

VisitStatement(scopes, current_function_return_type, return_has_occured, node) ==
    CASE node.node = "Print" ->
            visit_print(scopes, current_function_return_type, return_has_occured, node)
      [] node.node = "Let" ->
            visit_let(scopes, current_function_return_type, return_has_occured, node)
      [] node.node = "Assignment" ->
            visit_assignment(scopes, current_function_return_type, return_has_occured, node)
      [] node.node = "Return" ->
            visit_return(scopes, current_function_return_type, return_has_occured, node)
      [] node.node = "If" ->
            visit_if(scopes, current_function_return_type, return_has_occured, node)
      [] OTHER ->
            VisitExpressionStatement(scopes, current_function_return_type,
                                     return_has_occured, node)

(***************************************************************************)
(* TypecheckerVisitor: Block, Function and Program.  The parts of          *)
(* visit_block, visit_function and visit_program that run before and after *)
(* the nested visits.                                                      *)
(***************************************************************************)

\* visit_block, after its loop: raise the collected errors or pop the scope.
BlockFinish(scopes, type_errors) ==
    IF type_errors # <<>>
    THEN [scopes |-> scopes, result |-> Raises(CombinedTypecheckError(type_errors))]
    ELSE [scopes |-> pop_scope(scopes), result |-> Returns(VOID)]

\* A visit_block that keeps only the error raised last.
CollectOverwriting(type_errors, result) ==
    IF result.raised THEN <<result.error>> ELSE type_errors

\* visit_block's except clause: one more error collected from a statement.
Collect(type_errors, result) ==
    IF result.raised THEN Append(type_errors, result.error) ELSE type_errors

\* The scope visit_function pushes: the parameters with their declared types.
RECURSIVE FunctionScope(_, _)
FunctionScope(parameters, i) ==
    IF i = 0 THEN Scope
    ELSE ScopeAddVariable(FunctionScope(parameters, i - 1),
                          parameters[i].name, parameters[i].type_id)

FunctionType(node) ==
    Callable(node.return_type,
             [i \in 1..Len(node.parameters) |-> node.parameters[i].type_id])

\* A visit_function that binds its parameters and forgets its own name.
FunctionStartUnregistered(scopes, node) ==
    push_scope(scopes, FunctionScope(node.parameters, Len(node.parameters)))

\* visit_function up to the visit of its code block.
FunctionStart(scopes, node) ==
    LET added == add_variable(scopes, node.name, FunctionType(node), node.context)
    IN push_scope(added.scopes, FunctionScope(node.parameters, Len(node.parameters)))

\* A visit_function that forgets that a Void function needs no Return.
ReturnMissingAlsoForVoid(return_has_occured, current_function_return_type) ==
    ~return_has_occured

\* The test of visit_function that decides NoReturnError.
ReturnMissing(return_has_occured, current_function_return_type) ==
    ~return_has_occured /\ current_function_return_type # VOID

\* visit_function after its code block was visited with the given result.
FunctionFinish(scopes, node, block, return_has_occured, current_function_return_type) ==
    IF block.raised THEN [scopes |-> scopes, result |-> block]
    ELSE IF ReturnMissing(return_has_occured, current_function_return_type)
    THEN [scopes |-> scopes,
          result |-> Raises(NoReturnError(node.return_type, node.name, node.context))]
    ELSE [scopes |-> pop_scope(scopes), result |-> Returns(VOID)]

\* visit_program, after its loop.
ProgramFinish(type_errors) ==
    IF type_errors # <<>> THEN Raises(CombinedTypecheckError(type_errors))
    ELSE Returns(VOID)

(***************************************************************************)
(* The nodes a checked Program is built from.  Node number `line` of the   *)
(* traversal stands on source line `line`.                                 *)
(***************************************************************************)
UserTypeName == "T"

At(line, column) == SourceContext(line, column)
One(line) == Unsignedint(At(line, 5))
True(line) == Bool(At(line, 5))

Function(name, parameters, return_type, ctx) ==
    [node |-> "Function", name |-> name, parameters |-> parameters,
     return_type |-> return_type, context |-> ctx]

\* The functions of a Program are named f, g, f, ... in definition order.
FunctionNameAt(i) == IF i % 2 = 1 THEN "f" ELSE "g"

\* The user types an environment handed to the checker may define.
BaseScopes == { Scope, ScopeAddType(Scope, UserTypeName, U8) }

\* Whether a statement is, or holds, a Return; and one of the right type.
RECURSIVE ContainsReturn(_)
ContainsReturn(node) ==
    CASE node.node = "Return" -> TRUE
      [] node.node = "If" -> ContainsReturn(node.consequence)
      [] OTHER -> FALSE

RECURSIVE ContainsTypedReturn(_, _, _)
ContainsTypedReturn(scopes, return_type, node) ==
    CASE node.node = "Return" -> VisitExpression(scopes, node.expr) = Returns(return_type)
      [] node.node = "If" -> ContainsTypedReturn(scopes, return_type, node.consequence)
      [] OTHER -> FALSE

(***************************************************************************)
(* The state of one type check.                                            *)
(***************************************************************************)
VARIABLES
    scopes,                        \* EnvironmentStack._scopes
    current_function_return_type,  \* TypecheckerVisitor._current_function_return_type
    return_has_occured,            \* TypecheckerVisitor._return_has_occured
    program_errors,                \* visit_program's type_errors
    blocks,                        \* the open visit_block calls, outermost first
    function,                      \* the visit_function call in progress
    pc,                            \* where the traversal stands
    lineno,                        \* the line of the next node
    functions,                     \* the Function nodes visited, in order
    bound_types,                   \* every type a variable was bound to so far
    calls,                         \* the function-call statements visited so far
    last,                          \* the visit that finished last
    result,                        \* what visit_program returned or raised
    scanner,                       \* the Scanner and what its scan has come to
    driver,                        \* the run of z64c
    parser,                        \* the Parser and what its call has come to
    codegen                        \* the code generation and what it has printed

\* The type checker's own state.
checker == <<scopes, current_function_return_type, return_has_occured, program_errors,
             blocks, function, pc, lineno, functions, bound_types, calls, result>>

vars == <<checker, last, scanner, driver, parser, codegen>>

\* No Scanner and no Parser were constructed; z64c is not running.
NoScanner == [pc |-> "none"]
NoDriver == [pc |-> "none"]
NoParser == [pc |-> "none"]
NoCodegen == [pc |-> "none"]

NoVisit == [visit |-> "none"]
Pending == [raised |-> FALSE, type |-> [k |-> "pending"]]

BoundTypes(ss) ==
    UNION { { ss[i].variable_types[n] : n \in DOMAIN ss[i].variable_types } :
            i \in 1..Len(ss) }

TCInit ==
    /\ scopes \in { <<base>> : base \in BaseScopes }
    /\ current_function_return_type = VOID
    /\ return_has_occured = FALSE
    /\ program_errors = <<>>
    /\ blocks = <<>>
    /\ function = [node |-> [node |-> "None"]]
    /\ pc = "program"
    /\ lineno = 1
    /\ functions = <<>>
    /\ bound_types = {}
    /\ calls = {}
    /\ last = NoVisit
    /\ result = Pending
    /\ scanner = NoScanner
    /\ driver = NoDriver
    /\ parser = NoParser
    /\ codegen = NoCodegen

\* A visit_block call in progress: the errors collected so far, the number
\* of scopes there was when the call started, and what each statement
\* visited so far returned or raised.
OpenBlock(started) == [type_errors |-> <<>>, started |-> started, results |-> <<>>]

\* The loop body of visit_block on the innermost open block.
Visited(bs, res) ==
    [bs EXCEPT ![Len(bs)].type_errors = Collect(@, res),
               ![Len(bs)].results = Append(@, res)]

\* visit_program visits the next function with a new TypecheckerVisitor;
\* visit_function runs up to the first statement of the code block.
EnterFunction(node) ==
    /\ pc = "program"
    /\ Len(functions) < MaxFunctions
    /\ lineno <= MaxNodes
    /\ current_function_return_type' = node.return_type
    /\ return_has_occured' = FALSE
    /\ scopes' = push_scope(FunctionStart(scopes, node), Scope)
    /\ blocks' = <<OpenBlock(Len(scopes) + 1)>>
    /\ function' = [node |-> node, started |-> Len(scopes),
                    any_return |-> FALSE, typed_return |-> FALSE]
    /\ functions' = Append(functions, node)
    /\ bound_types' = bound_types \cup BoundTypes(scopes')
    /\ pc' = "block"
    /\ lineno' = lineno + 1
    /\ last' = [visit |-> "enter_function", node |-> node, before |-> scopes]
    /\ UNCHANGED <<program_errors, calls, result>>
    /\ UNCHANGED <<scanner, driver, parser, codegen>>

\* One iteration of visit_block's loop over a statement that is not an
\* `if` with a Block.
VisitSimpleStatement(node) ==
    /\ pc = "block"
    /\ lineno <= MaxNodes
    /\ LET out == VisitStatement(scopes, current_function_return_type,
                                 return_has_occured, node)
       IN /\ scopes' = out.scopes
          /\ return_has_occured' = out.return_has_occured
          /\ blocks' = Visited(blocks, out.result)
          /\ bound_types' = bound_types \cup BoundTypes(out.scopes)
          /\ last' = [visit |-> "statement", node |-> node, result |-> out.result,
                      before |-> scopes]
    /\ function' = [function EXCEPT
                       !.any_return = @ \/ ContainsReturn(node),
                       !.typed_return = @ \/ ContainsTypedReturn(
                           scopes, current_function_return_type, node)]
    /\ calls' = IF node.node = "FunctionCall"
                THEN calls \cup {[caller |-> Len(functions), callee |-> node.function_name,
                                  result |-> VisitExpression(scopes, node)]}
                ELSE calls
    /\ lineno' = lineno + 1
    /\ UNCHANGED <<current_function_return_type, program_errors, pc, functions, result>>
    /\ UNCHANGED <<scanner, driver, parser, codegen>>

\* One iteration of visit_block's loop over an `if` whose consequence is a
\* Block: visit_if checks the condition, then visit_block pushes its scope.
EnterIfBlock(condition) ==
    /\ pc = "block"
    /\ Len(blocks) < MaxDepth
    /\ lineno <= MaxNodes
    /\ LET c == VisitExpression(scopes, condition)
           refused == IF c.raised THEN c
                      ELSE Raises(TypeMismatchError(BOOL, c.type, condition.context))
       IN IF c.raised \/ ~ConditionAccepted(c.type)
          THEN /\ blocks' = Visited(blocks, refused)
               /\ scopes' = scopes
               /\ last' = [visit |-> "if", condition |-> condition, result |-> refused,
                           before |-> scopes]
          ELSE /\ blocks' = Append(blocks, OpenBlock(Len(scopes)))
               /\ scopes' = push_scope(scopes, Scope)
               /\ last' = [visit |-> "enter_block", condition |-> condition,
                           before |-> scopes]
    /\ lineno' = lineno + 1
    /\ UNCHANGED <<current_function_return_type, return_has_occured, program_errors,
                   function, functions, bound_types, calls, pc, result>>
    /\ UNCHANGED <<scanner, driver, parser, codegen>>

\* visit_block finishes.  What it raises passes through visit_if into the
\* except clause of the enclosing visit_block, or, from the code block of
\* the function, into visit_function.
ExitBlock ==
    /\ pc = "block"
    /\ LET top == blocks[Len(blocks)]
           fin == BlockFinish(scopes, top.type_errors)
           rest == SubSeq(blocks, 1, Len(blocks) - 1)
       IN /\ scopes' = fin.scopes
          /\ blocks' = IF rest = <<>> THEN rest ELSE Visited(rest, fin.result)
          /\ pc' = IF rest = <<>> THEN "function" ELSE "block"
          /\ last' = [visit |-> "visit_block", result |-> fin.result,
                      started |-> top.started, results |-> top.results,
                      before |-> scopes, consequence |-> (rest # <<>>)]
    /\ UNCHANGED <<current_function_return_type, return_has_occured, program_errors,
                   function, lineno, functions, bound_types, calls, result>>
    /\ UNCHANGED <<scanner, driver, parser, codegen>>

\* visit_function finishes; visit_program's except clause collects what it
\* raised.
ExitFunction ==
    /\ pc = "function"
    /\ LET fin == FunctionFinish(scopes, function.node, last.result, return_has_occured,
                                 current_function_return_type)
       IN /\ scopes' = fin.scopes
          /\ program_errors' = Collect(program_errors, fin.result)
          /\ last' = [visit |-> "visit_function", node |-> function.node,
                      result |-> fin.result, started |-> function.started,
                      before |-> scopes, block |-> last.result,
                      any_return |-> function.any_return,
                      typed_return |-> function.typed_return]
    /\ pc' = "program"
    /\ UNCHANGED <<current_function_return_type, return_has_occured, blocks, function,
                   lineno, functions, bound_types, calls, result>>
    /\ UNCHANGED <<scanner, driver, parser, codegen>>

\* visit_program finishes.
ExitProgram ==
    /\ pc = "program"
    /\ result' = ProgramFinish(program_errors)
    /\ pc' = "done"
    /\ last' = [visit |-> "visit_program", result |-> ProgramFinish(program_errors)]
    /\ UNCHANGED <<scopes, current_function_return_type, return_has_occured,
                   program_errors, blocks, function, lineno, functions, bound_types,
                   calls>>
    /\ UNCHANGED <<scanner, driver, parser, codegen>>

(***************************************************************************)
(* Spec: Programs that exercise scopes and the collection of errors.       *)
(***************************************************************************)
Functions(line, i) ==
    { Function(FunctionNameAt(i), <<>>, return_type, At(line, 1)) :
      return_type \in {VOID, U8} }

Statements(line) ==
    { Let("x", U8, One(line), At(line, 1)),
      Assignment("x", True(line), At(line, 1)),
      PrintStatement(Identifier("x", At(line, 7)), At(line, 1)),
      PrintStatement(Identifier("y", At(line, 7)), At(line, 1)),
      If(True(line), Let("x", U8, Unsignedint(At(line, 9)), At(line, 8)), At(line, 1)) }

Conditions(line) == { True(line), One(line) }

Next ==
    \/ \E node \in Functions(lineno, Len(functions) + 1) : EnterFunction(node)
    \/ \E node \in Statements(lineno) : VisitSimpleStatement(node)
    \/ \E condition \in Conditions(lineno) : EnterIfBlock(condition)
    \/ ExitBlock
    \/ ExitFunction
    \/ ExitProgram

Spec == TCInit /\ [][Next]_vars

(***************************************************************************)
(* SpecFunctions: Programs that exercise returns and calls between         *)
(* functions.                                                              *)
(***************************************************************************)
ReturningFunctions(line, i) ==
    { Function(FunctionNameAt(i), <<>>, return_type, At(line, 1)) :
      return_type \in {VOID, U8} }

ReturnsAndCalls(line) ==
    { Return(One(line), At(line, 1)),
      Return(True(line), At(line, 1)),
      FunctionCall("f", <<>>, At(line, 1)),
      FunctionCall("g", <<>>, At(line, 1)),
      If(One(line), Return(Unsignedint(At(line, 9)), At(line, 8)), At(line, 1)) }

NextFunctions ==
    \/ \E node \in ReturningFunctions(lineno, Len(functions) + 1) : EnterFunction(node)
    \/ \E node \in ReturnsAndCalls(lineno) : VisitSimpleStatement(node)
    \/ EnterIfBlock(True(lineno))
    \/ ExitBlock
    \/ ExitFunction
    \/ ExitProgram

SpecFunctions == TCInit /\ [][NextFunctions]_vars

(***************************************************************************)
(* SpecTypes: Programs that declare variables and parameters of a user     *)
(* type.                                                                   *)
(***************************************************************************)
TypedFunctions(line, i) ==
    { Function(FunctionNameAt(i), parameters, VOID, At(line, 1)) :
      parameters \in { <<>>, <<Parameter("y", TypeIdentifier(UserTypeName))>>,
                       <<Parameter("y", BOOL)>> } }

TypedStatements(line) ==
    { Let("x", TypeIdentifier(UserTypeName), One(line), At(line, 1)),
      Let("x", U8, Identifier("y", At(line, 5)), At(line, 1)),
      PrintStatement(Identifier("x", At(line, 7)), At(line, 1)),
      PrintStatement(Identifier("y", At(line, 7)), At(line, 1)) }

NextTypes ==
    \/ \E node \in TypedFunctions(lineno, Len(functions) + 1) : EnterFunction(node)
    \/ \E node \in TypedStatements(lineno) : VisitSimpleStatement(node)
    \/ EnterIfBlock(True(lineno))
    \/ ExitBlock
    \/ ExitFunction
    \/ ExitProgram

SpecTypes == TCInit /\ [][NextTypes]_vars

(***************************************************************************)
(* SpecCalls: visit_function_call applied to calls of a function f of up   *)
(* to MaxParameters parameters, in an environment that binds f and a u8    *)
(* variable x.                                                             *)
(***************************************************************************)
RECURSIVE SeqsUpTo(_, _)
SeqsUpTo(S, n) ==
    IF n = 0 THEN { <<>> }
    ELSE LET shorter == SeqsUpTo(S, n - 1)
         IN shorter \cup { Append(q, e) : q \in shorter, e \in S }

CalleeTypes ==
    { Callable(return_type, parameter_types) :
      return_type \in {VOID, U8}, parameter_types \in SeqsUpTo({U8, BOOL}, MaxParameters) }

ArgumentKinds == {"Unsignedint", "Bool", "x", "z"}
Argument(kind, i) ==
    CASE kind = "Unsignedint" -> Unsignedint(At(1, 2 + i))
      [] kind = "Bool" -> Bool(At(1, 2 + i))
      [] OTHER -> Identifier(kind, At(1, 2 + i))

Calls ==
    { FunctionCall(name, [i \in 1..Len(kinds) |-> Argument(kinds[i], i)], At(1, 1)) :
      name \in {"f", "x", "z"}, kinds \in SeqsUpTo(ArgumentKinds, MaxParameters + 1) }

CallsInit ==
    /\ scopes \in { <<ScopeAddVariable(ScopeAddVariable(Scope, "f", callee), "x", U8)>> :
                    callee \in CalleeTypes }
    /\ current_function_return_type = VOID
    /\ return_has_occured = FALSE
    /\ program_errors = <<>>
    /\ blocks = <<>>
    /\ function = [node |-> [node |-> "None"]]
    /\ pc = "call"
    /\ lineno = 1
    /\ functions = <<>>
    /\ bound_types = {}
    /\ calls = {}
    /\ last = NoVisit
    /\ result = Pending
    /\ scanner = NoScanner
    /\ driver = NoDriver
    /\ parser = NoParser
    /\ codegen = NoCodegen

\* A FunctionCall node is visited on its own, as the tests do.
VisitCall(node) ==
    /\ pc = "call"
    /\ pc' = "called"
    /\ last' = [visit |-> "call", node |-> node,
                result |-> VisitExpression(scopes, node), before |-> scopes]
    /\ UNCHANGED <<scopes, current_function_return_type, return_has_occured,
                   program_errors, blocks, function, lineno, functions, bound_types,
                   calls, result>>
    /\ UNCHANGED <<scanner, driver, parser, codegen>>

NextCalls == \E node \in Calls : VisitCall(node)

SpecCalls == CallsInit /\ [][NextCalls]_vars

(***************************************************************************)
(* SpecIf: Programs of `if` statements with conditions of type bool and    *)
(* u8, over a Block and over a bare `let`.                                 *)
(***************************************************************************)
IfFunctions(line, i) == { Function(FunctionNameAt(i), <<>>, VOID, At(line, 1)) }

IfStatements(line) ==
    { Let("x", U8, One(line), At(line, 1)),
      PrintStatement(Identifier("x", At(line, 7)), At(line, 1)) }
        \cup { If(condition, Let("x", U8, Unsignedint(At(line, 9)), At(line, 8)),
                  At(line, 1)) :
               condition \in {True(line), One(line)} }

NextIf ==
    \/ \E node \in IfFunctions(lineno, Len(functions) + 1) : EnterFunction(node)
    \/ \E node \in IfStatements(lineno) : VisitSimpleStatement(node)
    \/ \E condition \in Conditions(lineno) : EnterIfBlock(condition)
    \/ ExitBlock
    \/ ExitFunction
    \/ ExitProgram

SpecIf == TCInit /\ [][NextIf]_vars

(***************************************************************************)
(* SpecStatements: one statement visited in an environment built with      *)
(* push_scope, add_variable and add_type, as the tests of the visitor do.  *)
(***************************************************************************)
StatementScopes ==
    { Scope, ScopeAddType(Scope, UserTypeName, U8) }
        \cup { ScopeAddVariable(Scope, "x", t) : t \in {U8, I8, BOOL} }

StatementEnvironments == SeqsUpTo(StatementScopes, MaxDepth) \ { <<>> }

\* Expressions of type u8, i8 and bool, the variable x and the unbound z.
Operands(column) ==
    { Unsignedint(At(1, column)),
      Negation(Unsignedint(At(1, column + 1)), At(1, column)),
      Bool(At(1, column)),
      Identifier("x", At(1, column)),
      Identifier("z", At(1, column)) }

LoneStatements ==
    { Let("x", var_type, rhs, At(1, 1)) :
      var_type \in {U8, I8, BOOL, TypeIdentifier(UserTypeName)}, rhs \in Operands(12) }
        \cup { Assignment(name, rhs, At(1, 1)) : name \in {"x", "z"}, rhs \in Operands(5) }
        \cup { Addition(lhs, rhs, At(1, 4)) : lhs \in Operands(1), rhs \in Operands(6) }

StatementsInit ==
    /\ scopes \in StatementEnvironments
    /\ current_function_return_type = VOID
    /\ return_has_occured = FALSE
    /\ program_errors = <<>>
    /\ blocks = <<>>
    /\ function = [node |-> [node |-> "None"]]
    /\ pc = "statement"
    /\ lineno = 1
    /\ functions = <<>>
    /\ bound_types = {}
    /\ calls = {}
    /\ last = NoVisit
    /\ result = Pending
    /\ scanner = NoScanner
    /\ driver = NoDriver
    /\ parser = NoParser
    /\ codegen = NoCodegen

\* A statement node is visited on its own.
VisitLoneStatement(node) ==
    /\ pc = "statement"
    /\ pc' = "visited"
    /\ LET out == VisitStatement(scopes, current_function_return_type,
                                 return_has_occured, node)
       IN /\ scopes' = out.scopes
          /\ return_has_occured' = out.return_has_occured
          /\ last' = [visit |-> "statement", node |-> node, result |-> out.result,
                      before |-> scopes]
    /\ UNCHANGED <<current_function_return_type, program_errors, blocks, function,
                   lineno, functions, bound_types, calls, result>>
    /\ UNCHANGED <<scanner, driver, parser, codegen>>

NextStatements == \E node \in LoneStatements : VisitLoneStatement(node)

SpecStatements == StatementsInit /\ [][NextStatements]_vars

(***************************************************************************)
(* The scanner.  A source is a sequence of characters, a lexeme the        *)
(* sequence of the characters it is made of.                               *)
(***************************************************************************)
IndentWidth == 4

Digits == {"0", "1", "2", "3", "4", "5", "6", "7", "8", "9"}
Letters ==
    {"a", "b", "c", "d", "e", "f", "g", "h", "i", "j", "k", "l", "m",
     "n", "o", "p", "q", "r", "s", "t", "u", "v", "w", "x", "y", "z",
     "A", "B", "C", "D", "E", "F", "G", "H", "I", "J", "K", "L", "M",
     "N", "O", "P", "Q", "R", "S", "T", "U", "V", "W", "X", "Y", "Z"}

isdigit(c) == c \in Digits
is_identifier_leading_character(c) == c \in Letters \/ c = "_"
\* The characters _is_identifier_character holds of.
IdentifierCharacters == Letters \cup {"_"} \cup Digits

KEYWORD_CATEGORIES ==
    { [keyword |-> <<"p", "r", "i", "n", "t">>, category |-> "PRINT"],
      [keyword |-> <<"t", "r", "u", "e">>, category |-> "TRUE"],
      [keyword |-> <<"f", "a", "l", "s", "e">>, category |-> "FALSE"],
      [keyword |-> <<"b", "o", "o", "l">>, category |-> "BOOL"],
      [keyword |-> <<"u", "8">>, category |-> "U8"],
      [keyword |-> <<"l", "e", "t">>, category |-> "LET"],
      [keyword |-> <<"i", "f">>, category |-> "IF"] }

\* The one-character symbols of scan, "=" after "==" was tried.
SYMBOL_CATEGORIES ==
    { [symbol |-> "(", category |-> "LEFT_PAREN"],
      [symbol |-> ")", category |-> "RIGHT_PAREN"],
      [symbol |-> "+", category |-> "PLUS"],
      [symbol |-> "-", category |-> "MINUS"],
      [symbol |-> "=", category |-> "ASSIGN"],
      [symbol |-> ":", category |-> "COLON"] }

Token(line, column, category, lexeme) ==
    [line |-> line, column |-> column, category |-> category, lexeme |-> lexeme]

UnrecognizedTokenError(line, column, leading_char) ==
    [e |-> "UnrecognizedTokenError", line |-> line, column |-> column,
     leading_char |-> leading_char]
UnevenIndentError(line, column, space_count) ==
    [e |-> "UnevenIndentError", line |-> line, column |-> column,
     space_count |-> space_count]
\* What indexing KEYWORD_CATEGORIES by a string that is not a keyword raises.
KeyError(key) == [e |-> "KeyError", key |-> key]

IsScanError(error) == error.e \in {"UnrecognizedTokenError", "UnevenIndentError"}

\* Scanner.__init__; pc, tokens and error are what scan has come to.
Scanner(source) ==
    [source |-> source, source_index |-> 0, line |-> 1, column |-> 1,
     produced_tokens |-> <<>>, indent_level |-> 0,
     pc |-> "scanning", tokens |-> <<>>, error |-> [e |-> "None"]]

remaining_source(s) == SubSeq(s.source, s.source_index + 1, Len(s.source))

startswith(characters, prefix) ==
    /\ Len(prefix) <= Len(characters)
    /\ SubSeq(characters, 1, Len(prefix)) = prefix

\* itertools.takewhile, the predicate given as the set of the characters
\* it holds of.
takewhile(predicate, characters) ==
    LET stops == { i \in 1..Len(characters) : characters[i] \notin predicate }
    IN IF stops = {} THEN characters
       ELSE SubSeq(characters, 1, (CHOOSE i \in stops : \A j \in stops : i <= j) - 1)

IsSpace == {" "}
lstrip(characters) ==
    SubSeq(characters, Len(takewhile(IsSpace, characters)) + 1, Len(characters))

\* An _advance that goes on counting columns across a newline.
advanceKeepingColumn(s) ==
    LET newline == s.source[s.source_index + 1] = "\n"
    IN [s EXCEPT !.line = IF newline THEN @ + 1 ELSE @,
                 !.column = @ + 1,
                 !.source_index = @ + 1]

advance(s) ==
    LET newline == s.source[s.source_index + 1] = "\n"
    IN [s EXCEPT !.line = IF newline THEN @ + 1 ELSE @,
                 !.column = (IF newline THEN 0 ELSE @) + 1,
                 !.source_index = @ + 1]

RECURSIVE advance_many(_, _)
advance_many(s, count) ==
    IF count = 0 THEN s ELSE advance_many(advance(s), count - 1)

Produce(s, produced) == [s EXCEPT !.produced_tokens = @ \o produced]

consume_one_character_symbol(s, character, category) ==
    Produce(advance(s), <<Token(s.line, s.column, category, <<character>>)>>)

consume_two_character_symbol(s, characters, category) ==
    Produce(advance(advance(s)), <<Token(s.line, s.column, category, characters)>>)

consume_multi_character_symbol(s, character_predicate, resulting_category) ==
    LET characters == takewhile(character_predicate, remaining_source(s))
    IN Produce([s EXCEPT !.column = @ + Len(characters),
                         !.source_index = @ + Len(characters)],
               <<Token(s.line, s.column, resulting_category, characters)>>)

is_keyword_next(s) ==
    \E k \in KEYWORD_CATEGORIES : startswith(remaining_source(s), k.keyword)

Raise(s, error) == [s EXCEPT !.pc = "raised", !.error = error]

consume_keyword(s) ==
    LET characters == takewhile(IdentifierCharacters, remaining_source(s))
    IN IF \E k \in KEYWORD_CATEGORIES : k.keyword = characters
       THEN LET k == CHOOSE k \in KEYWORD_CATEGORIES : k.keyword = characters
            IN Produce([s EXCEPT !.column = @ + Len(characters),
                                 !.source_index = @ + Len(characters)],
                       <<Token(s.line, s.column, k.category, characters)>>)
       ELSE Raise(s, KeyError(characters))

count_indentations(s) ==
    LET space_count == Len(takewhile(IsSpace, remaining_source(s)))
    IN IF space_count = 0 THEN [raised |-> FALSE, count |-> 0]
       ELSE IF space_count % IndentWidth # 0
       THEN [raised |-> TRUE, error |-> UnevenIndentError(s.line, s.column, space_count)]
       ELSE [raised |-> FALSE, count |-> space_count \div IndentWidth]

\* INDENT and DEDENT tokens that stop at one whatever the distance.
IndentsAtMostOne(s, new_indent_level) ==
    IF s.indent_level < new_indent_level
    THEN <<Token(s.line, s.column, "INDENT", <<" ", " ", " ", " ">>)>>
    ELSE IF s.indent_level > new_indent_level
    THEN <<Token(s.line, s.column, "DEDENT", <<" ", " ", " ", " ">>)>>
    ELSE <<>>

\* The two loops of _consume_possible_indentations.
Indents(s, new_indent_level) ==
    IF s.indent_level < new_indent_level
    THEN [i \in 1..(new_indent_level - s.indent_level) |->
             Token(s.line, s.column, "INDENT", <<" ", " ", " ", " ">>)]
    ELSE [i \in 1..(s.indent_level - new_indent_level) |->
             Token(s.line, s.column, "DEDENT", <<" ", " ", " ", " ">>)]

\* A _consume_possible_indentations that evaluates blank lines too.
consume_possible_indentationsOfEveryLine(s) ==
    LET new_indent_level == count_indentations(s)
    IN IF new_indent_level.raised THEN Raise(s, new_indent_level.error)
       ELSE Produce([advance_many(s, new_indent_level.count * IndentWidth)
                        EXCEPT !.indent_level = new_indent_level.count],
                    Indents(s, new_indent_level.count))

\* The Scanner after `extend(self._consume_possible_indentations())`.
consume_possible_indentations(s) ==
    LET stripped == lstrip(remaining_source(s))
    IN IF stripped # <<>> /\ stripped[1] = "\n" THEN s
       ELSE LET new_indent_level == count_indentations(s)
            IN IF new_indent_level.raised THEN Raise(s, new_indent_level.error)
               ELSE Produce([advance_many(s, new_indent_level.count * IndentWidth)
                                EXCEPT !.indent_level = new_indent_level.count],
                            Indents(s, new_indent_level.count))

\* A filter that lets every token through.
remove_no_newlines(tokens) == tokens

remove_extra_newlines(tokens) ==
    LET next_token(i) == tokens[(i % Len(tokens)) + 1]
        kept == { i \in 1..Len(tokens) :
                  ~(tokens[i].category = "NEWLINE" /\ next_token(i).category = "NEWLINE") }
        nth(n) == CHOOSE i \in kept : Cardinality({ j \in kept : j < i }) = n - 1
    IN [n \in 1..Cardinality(kept) |-> tokens[nth(n)]]

\* The while loop of scan stands before a character of the source.
Scanning ==
    /\ scanner.pc = "scanning"
    /\ scanner.source_index < Len(scanner.source)

ScanSpace ==
    /\ Scanning
    /\ startswith(remaining_source(scanner), <<" ">>)
    /\ scanner' = advance(scanner)
    /\ UNCHANGED <<checker, last, driver, parser, codegen>>

ScanNewline ==
    /\ Scanning
    /\ startswith(remaining_source(scanner), <<"\n">>)
    /\ LET newline == consume_one_character_symbol(scanner, "\n", "NEWLINE")
       IN /\ scanner' = consume_possible_indentations(newline)
          /\ last' = [visit |-> "consume_possible_indentations",
                      indent_level |-> scanner.indent_level,
                      remaining_source |-> remaining_source(newline),
                      indents |-> SubSeq(scanner'.produced_tokens,
                                         Len(newline.produced_tokens) + 1,
                                         Len(scanner'.produced_tokens)),
                      raised |-> scanner'.pc = "raised"]
    /\ UNCHANGED <<checker, driver, parser, codegen>>

ScanSymbol ==
    /\ Scanning
    /\ ~startswith(remaining_source(scanner), <<"=", "=">>)
    /\ \E k \in SYMBOL_CATEGORIES :
          /\ startswith(remaining_source(scanner), <<k.symbol>>)
          /\ scanner' = consume_one_character_symbol(scanner, k.symbol, k.category)
    /\ UNCHANGED <<checker, last, driver, parser, codegen>>

ScanEqual ==
    /\ Scanning
    /\ startswith(remaining_source(scanner), <<"=", "=">>)
    /\ scanner' = consume_two_character_symbol(scanner, <<"=", "=">>, "EQUAL")
    /\ UNCHANGED <<checker, last, driver, parser, codegen>>

ScanUnsignedint ==
    /\ Scanning
    /\ isdigit(remaining_source(scanner)[1])
    /\ scanner' = consume_multi_character_symbol(scanner, Digits, "UNSIGNEDINT")
    /\ UNCHANGED <<checker, last, driver, parser, codegen>>

ScanKeyword ==
    /\ Scanning
    /\ is_keyword_next(scanner)
    /\ scanner' = consume_keyword(scanner)
    /\ UNCHANGED <<checker, last, driver, parser, codegen>>

ScanIdentifier ==
    /\ Scanning
    /\ ~is_keyword_next(scanner)
    /\ is_identifier_leading_character(remaining_source(scanner)[1])
    /\ scanner' = consume_multi_character_symbol(scanner, IdentifierCharacters,
                                                 "IDENTIFIER")
    /\ UNCHANGED <<checker, last, driver, parser, codegen>>

\* The else branch of scan: no rule matches the character.
ScanUnrecognized ==
    /\ Scanning
    /\ LET c == remaining_source(scanner)[1]
       IN /\ c \notin {" ", "\n"}
          /\ \A k \in SYMBOL_CATEGORIES : c # k.symbol
          /\ ~isdigit(c)
          /\ ~is_identifier_leading_character(c)
          /\ scanner' = Raise(scanner,
                              UnrecognizedTokenError(scanner.line, scanner.column, c))
    /\ UNCHANGED <<checker, last, driver, parser, codegen>>

\* The source is used up: scan returns.
ScanReturn ==
    /\ scanner.pc = "scanning"
    /\ scanner.source_index >= Len(scanner.source)
    /\ scanner' =
          [scanner EXCEPT
              !.pc = "returned",
              !.tokens = remove_extra_newlines(
                  scanner.produced_tokens
                      \o <<Token(scanner.line, scanner.column, "EOF", <<>>)>>)]
    /\ UNCHANGED <<checker, last, driver, parser, codegen>>

ScanStep ==
    \/ ScanSpace
    \/ ScanNewline
    \/ ScanSymbol
    \/ ScanEqual
    \/ ScanUnsignedint
    \/ ScanKeyword
    \/ ScanIdentifier
    \/ ScanUnrecognized
    \/ ScanReturn

(***************************************************************************)
(* SpecScan: scans of sources of up to MaxLines lines, each indented by    *)
(* up to MaxIndent indentations or by two spaces; the first line holds any *)
(* of the kinds of lexeme, the later ones an identifier or nothing.        *)
(***************************************************************************)
Spaces(n) == [i \in 1..n |-> " "]

SpaceCounts == { IndentWidth * k : k \in 0..MaxIndent } \cup {2}

FirstLineBodies ==
    { <<>>, <<"x">>, <<"1">>, <<"i", "f">>, <<"=">>, <<"=", "=">>, <<"$">> }
LineBodies == { <<>>, <<"x">> }

SourceLines(bodies) == { Spaces(n) \o body : n \in SpaceCounts, body \in bodies }

RECURSIVE Sources(_)
Sources(lines) ==
    IF lines = 1 THEN SourceLines(FirstLineBodies)
    ELSE LET shorter == Sources(lines - 1)
         IN shorter \cup { source \o <<"\n">> \o source_line :
                           source \in shorter, source_line \in SourceLines(LineBodies) }

\* No TypecheckerVisitor was constructed.
NoChecker ==
    /\ scopes = <<>>
    /\ current_function_return_type = VOID
    /\ return_has_occured = FALSE
    /\ program_errors = <<>>
    /\ blocks = <<>>
    /\ function = [node |-> [node |-> "None"]]
    /\ pc = "idle"
    /\ lineno = 1
    /\ functions = <<>>
    /\ bound_types = {}
    /\ calls = {}
    /\ result = Pending

ScanInit ==
    /\ scanner \in { Scanner(source) : source \in Sources(MaxLines) }
    /\ driver = NoDriver
    /\ parser = NoParser
    /\ codegen = NoCodegen
    /\ last = NoVisit
    /\ NoChecker

SpecScan == ScanInit /\ [][ScanStep]_vars

(***************************************************************************)
(* SpecBlankLines: scans of sources of up to MaxLines + 1 lines, each an   *)
(* identifier indented by up to MaxIndent indentations or a blank line of  *)
(* no, two or four spaces.                                                 *)
(***************************************************************************)
BlankLines == { Spaces(n) : n \in {0, 2, IndentWidth} }
IdentifierLines == { Spaces(IndentWidth * k) \o <<"x">> : k \in 0..MaxIndent }

RECURSIVE BlankLineSources(_)
BlankLineSources(lines) ==
    IF lines = 1 THEN IdentifierLines
    ELSE LET shorter == BlankLineSources(lines - 1)
         IN shorter \cup { source \o <<"\n">> \o source_line :
                           source \in shorter,
                           source_line \in BlankLines \cup IdentifierLines }

BlankLinesInit ==
    /\ scanner \in { Scanner(source) : source \in BlankLineSources(MaxLines + 1) }
    /\ driver = NoDriver
    /\ parser = NoParser
    /\ codegen = NoCodegen
    /\ last = NoVisit
    /\ NoChecker

\* The branches of scan that these sources reach.
NextBlankLines ==
    \/ ScanSpace
    \/ ScanNewline
    \/ ScanIdentifier
    \/ ScanReturn

SpecBlankLines == BlankLinesInit /\ [][NextBlankLines]_vars

(***************************************************************************)
(* SpecTokens: scans of sources made of up to MaxLexemes pieces, each a    *)
(* word, a number, a symbol, a space, a newline or a character no rule     *)
(* accepts.                                                                *)
(***************************************************************************)
Pieces ==
    { <<"i", "f">>, <<"i", "f", "f", "y">>, <<"d", "e", "f">>, <<"x">>, <<"1">>,
      <<"=">>, <<"-">>, <<">">>, <<" ">>, <<"\n">>, <<"$">> }

RECURSIVE PiecedSources(_)
PiecedSources(pieces) ==
    IF pieces = 0 THEN { <<>> }
    ELSE LET shorter == PiecedSources(pieces - 1)
         IN shorter \cup { source \o piece : source \in shorter, piece \in Pieces }

TokensInit ==
    /\ scanner \in { Scanner(source) : source \in PiecedSources(MaxLexemes) }
    /\ driver = NoDriver
    /\ parser = NoParser
    /\ codegen = NoCodegen
    /\ last = NoVisit
    /\ NoChecker

SpecTokens == TokensInit /\ [][ScanStep]_vars

(***************************************************************************)
(* The driver z64c.  Its scan is the scanner above and its type check the  *)
(* type checker above; what Parser.parse comes to is an input of the       *)
(* driver, and code generation is one step.                                *)
(***************************************************************************)
Stage(stage) == [stage |-> stage, outcome |-> "running"]

\* z64c has read the source, constructed the Scanner and calls scan.
Driver == [pc |-> "scan", output |-> <<>>, stages |-> <<Stage("scan")>>, parse |-> "none"]

Finished(d, outcome) == [d EXCEPT !.stages[Len(d.stages)].outcome = outcome]

\* A stage returned: z64c goes on to the next one.
StagePassed(d, next) ==
    [Finished(d, "ok") EXCEPT !.pc = next, !.stages = Append(@, Stage(next))]

\* An except clause of z64c: the message is printed and z64c returns.
StageFailed(d, error) ==
    [Finished(d, "error") EXCEPT !.pc = "returned",
                                 !.output = Append(@, [message |-> error])]

\* An exception no except clause of z64c names leaves z64c.
StageCrashed(d, error) == [Finished(d, "error") EXCEPT !.pc = "raised"]

\* An except clause for TypecheckError that prints and does not return.
TypecheckFailedGoesOn(d, error) ==
    StagePassed([d EXCEPT !.output = Append(@, [message |-> error])], "codegen")

TypecheckFailed(d, error) == StageFailed(d, error)

\* scan came to its end: the tokens are printed, or the ScanError is.
DriverAfterScan ==
    /\ driver.pc = "scan"
    /\ scanner.pc \in {"returned", "raised"}
    /\ driver' =
          IF scanner.pc = "returned"
          THEN StagePassed([driver EXCEPT !.output = @ \o scanner.tokens], "parse")
          ELSE IF IsScanError(scanner.error)
          THEN StageFailed(driver, scanner.error)
          ELSE StageCrashed(driver, scanner.error)
    /\ UNCHANGED <<checker, last, scanner, parser, codegen>>

\* Parser(tokens).parse() raises a ParseError or returns the Program, which
\* a new TypecheckerVisitor then visits.
DriverParse(outcome) ==
    /\ driver.pc = "parse"
    /\ IF outcome = "ParseError"
       THEN /\ driver' = StageFailed([driver EXCEPT !.parse = outcome], [e |-> outcome])
            /\ UNCHANGED <<scopes, pc>>
       ELSE /\ driver' = StagePassed([driver EXCEPT !.parse = outcome], "typecheck")
            /\ scopes' = push_scope(<<>>, Scope)
            /\ pc' = "program"
    /\ UNCHANGED <<current_function_return_type, return_has_occured, program_errors,
                   blocks, function, lineno, functions, bound_types, calls, result,
                   last, scanner, parser, codegen>>

\* visit_program came to its end.
DriverAfterTypecheck ==
    /\ driver.pc = "typecheck"
    /\ pc = "done"
    /\ driver' = IF result.raised THEN TypecheckFailed(driver, result.error)
                 ELSE StagePassed(driver, "codegen")
    /\ UNCHANGED <<checker, last, scanner, parser, codegen>>

\* The Program is visited by the code generator and z64c returns.
DriverCodegen ==
    /\ driver.pc = "codegen"
    /\ driver' = [Finished(driver, "ok") EXCEPT !.pc = "returned"]
    /\ UNCHANGED <<checker, last, scanner, parser, codegen>>

(***************************************************************************)
(* SpecDriver: runs of z64c on a few sources, the Program a sequence of    *)
(* void functions that print.                                              *)
(***************************************************************************)
DriverSources ==
    { <<"x", " ", "=", " ", "1">>,
      <<"$">>,
      <<"i", "f", " ", "x", "=", "=", "(", "1", ")", ":", "\n",
        " ", " ", " ", " ", "x">>,
      <<"x", "\n", " ", " ", "x">> }

DriverFunctions(line, i) == { Function(FunctionNameAt(i), <<>>, VOID, At(line, 1)) }

DriverStatements(line) ==
    { PrintStatement(One(line), At(line, 1)),
      PrintStatement(Identifier("y", At(line, 7)), At(line, 1)) }

DriverInit ==
    /\ scanner \in { Scanner(source) : source \in DriverSources }
    /\ driver = Driver
    /\ parser = NoParser
    /\ codegen = NoCodegen
    /\ last = NoVisit
    /\ NoChecker

NextDriver ==
    \/ ScanStep
    \/ DriverAfterScan
    \/ \E outcome \in {"Program", "ParseError"} : DriverParse(outcome)
    \/ \E node \in DriverFunctions(lineno, Len(functions) + 1) : EnterFunction(node)
    \/ \E node \in DriverStatements(lineno) : VisitSimpleStatement(node)
    \/ ExitBlock
    \/ ExitFunction
    \/ ExitProgram
    \/ DriverAfterTypecheck
    \/ DriverCodegen

SpecDriver == DriverInit /\ [][NextDriver]_vars

(***************************************************************************)
(* Parser (parser.py).  A parsing method is an operator from the tokens    *)
(* that are left to what the method came to: the value it returned and the *)
(* tokens left after it, or the error it raised and the tokens left when   *)
(* it raised.  Every node also records, in `first`, the position of the    *)
(* token that was current when the method that builds it was entered.     *)
(***************************************************************************)
UnexpectedTokenError(expected_tokens, encountered_token, context) ==
    [e |-> "UnexpectedTokenError", expected_tokens |-> expected_tokens,
     encountered_token |-> encountered_token, context |-> context]

\* _parse_type calls self._parse_function_type(self): one argument too many.
TypeError(callee) == [e |-> "TypeError", callee |-> callee]

Parsed(value, tokens) == [raised |-> FALSE, value |-> value, tokens |-> tokens]
Aborted(error, tokens) == [raised |-> TRUE, error |-> error, tokens |-> tokens]

current_token(tokens) == tokens[1]
current_category(tokens) == current_token(tokens).category
next_categories(tokens) == [i \in 1..(IF Len(tokens) < 2 THEN Len(tokens) ELSE 2) |-> tokens[i].category]
advanced(tokens) == Tail(tokens)
make_context(tokens) == SourceContext(current_token(tokens).line, current_token(tokens).column)

With(node, field, value) ==
    [f \in DOMAIN node \cup {field} |-> IF f = field THEN value ELSE node[f]]
EnteredAt(node, tokens) == With(node, "first", make_context(tokens))

consumeAdvancing(tokens, category) ==
    IF current_category(tokens) # category
    THEN Aborted(UnexpectedTokenError(<<category>>, current_category(tokens),
                                      make_context(tokens)), advanced(tokens))
    ELSE Parsed(current_token(tokens), advanced(tokens))

consume(tokens, category) ==
    IF current_category(tokens) # category
    THEN Aborted(UnexpectedTokenError(<<category>>, current_category(tokens),
                                      make_context(tokens)), tokens)
    ELSE Parsed(current_token(tokens), advanced(tokens))

\* to_type of _parse_type, keyed by the lexeme of the type's token.
to_type ==
    { [lexeme |-> <<"b", "o", "o", "l">>, type |-> BOOL],
      [lexeme |-> <<"i", "8">>, type |-> I8],
      [lexeme |-> <<"u", "8">>, type |-> U8],
      [lexeme |-> <<"v", "o", "i", "d">>, type |-> VOID] }

parse_type(tokens) ==
    IF current_category(tokens) \in {"VOID", "BOOL", "I8", "U8"}
    THEN IF \E t \in to_type : t.lexeme = current_token(tokens).lexeme
         THEN Parsed((CHOOSE t \in to_type : t.lexeme = current_token(tokens).lexeme).type,
                     advanced(tokens))
         ELSE Aborted(KeyError(current_token(tokens).lexeme), advanced(tokens))
    ELSE IF next_categories(tokens) = <<"IDENTIFIER", "LEFT_BRACKET">>
    THEN Aborted(TypeError("_parse_function_type"), tokens)
    ELSE IF current_category(tokens) = "IDENTIFIER"
    THEN Parsed(TypeIdentifier(current_token(tokens).lexeme), advanced(tokens))
    ELSE Aborted(UnexpectedTokenError(<<"IDENTIFIER">>, current_category(tokens),
                                      make_context(tokens)), tokens)

\* The value of a call, evaluated once: { e(r) : r \in {call} } has one
\* element, e of the call's result.
The(outcomes) == CHOOSE outcome \in outcomes : TRUE

\* Consecutive calls of _consume, one per category; the value is the last
\* token consumed.
RECURSIVE consume_each(_, _)
consume_each(tokens, categories) ==
    The({ IF token.raised \/ Len(categories) = 1 THEN token
          ELSE consume_each(token.tokens, Tail(categories))
          : token \in {consume(tokens, Head(categories))} })

RECURSIVE parse_expression(_), parse_factor(_), parse_atom(_), parse_function_call(_)
RECURSIVE parse_more_arguments(_, _)

\* The while loop of _parse_function_call.
parse_more_arguments(tokens, arguments) ==
    IF current_category(tokens) = "RIGHT_PAREN" THEN Parsed(arguments, tokens)
    ELSE The({ IF comma.raised THEN comma
               ELSE The({ IF argument.raised THEN argument
                          ELSE parse_more_arguments(argument.tokens,
                                                    Append(arguments, argument.value))
                          : argument \in {parse_expression(comma.tokens)} })
               : comma \in {consume(tokens, "COMMA")} })

\* The arguments of _parse_function_call, `tokens` those after LEFT_PAREN.
parse_arguments(tokens) ==
    IF current_category(tokens) = "RIGHT_PAREN" THEN Parsed(<<>>, tokens)
    ELSE The({ IF argument.raised THEN argument
               ELSE parse_more_arguments(argument.tokens, <<argument.value>>)
               : argument \in {parse_expression(tokens)} })

parse_function_call(tokens) ==
    LET context == make_context(tokens)
    IN The({ IF paren.raised THEN paren
             ELSE The({ IF arguments.raised THEN arguments
                        ELSE The({ IF closing.raised THEN closing
                                   ELSE Parsed(EnteredAt(FunctionCall(tokens[1].lexeme,
                                                                      arguments.value,
                                                                      context), tokens),
                                               closing.tokens)
                                   : closing \in {consume(arguments.tokens, "RIGHT_PAREN")} })
                        : arguments \in {parse_arguments(paren.tokens)} })
             : paren \in {consume_each(tokens, <<"IDENTIFIER", "LEFT_PAREN">>)} })

parse_atom(tokens) ==
    LET context == make_context(tokens)
        token == current_token(tokens)
    IN IF next_categories(tokens) = <<"IDENTIFIER", "LEFT_PAREN">>
       THEN parse_function_call(tokens)
       ELSE IF token.category = "UNSIGNEDINT"
       THEN Parsed(EnteredAt(With(Unsignedint(context), "value", token.lexeme), tokens),
                   advanced(tokens))
       ELSE IF token.category = "IDENTIFIER"
       THEN Parsed(EnteredAt(Identifier(token.lexeme, context), tokens), advanced(tokens))
       ELSE IF token.category \in {"TRUE", "FALSE"}
       THEN Parsed(EnteredAt(With(Bool(context), "value", token.category = "TRUE"), tokens),
                   advanced(tokens))
       ELSE Aborted(UnexpectedTokenError(<<"UNSIGNEDINT", "TRUE", "FALSE", "IDENTIFIER">>,
                                         token.category, context), tokens)

parse_factor(tokens) ==
    IF current_category(tokens) = "PLUS" THEN parse_factor(advanced(tokens))
    ELSE IF current_category(tokens) = "MINUS"
    THEN The({ IF factor.raised THEN factor
               ELSE Parsed(EnteredAt(Negation(factor.value, make_context(tokens)), tokens),
                           factor.tokens)
               : factor \in {parse_factor(advanced(tokens))} })
    ELSE IF current_category(tokens) = "LEFT_PAREN"
    THEN The({ IF expression.raised THEN expression
               ELSE The({ IF closing.raised THEN closing
                          ELSE Parsed(expression.value, closing.tokens)
                          : closing \in {consume(expression.tokens, "RIGHT_PAREN")} })
               : expression \in {parse_expression(advanced(tokens))} })
    ELSE parse_atom(tokens)

parse_term(tokens) == parse_factor(tokens)

AdditionAtFirstToken(lhs, rhs, tokens, operator) ==
    EnteredAt(Addition(lhs, rhs, make_context(tokens)), tokens)

\* The Addition that _parse_expression builds, `tokens` those at its entry
\* and `operator` those left after the left-hand side.
AdditionOf(lhs, rhs, tokens, operator) ==
    EnteredAt(Addition(lhs, rhs, make_context(operator)), tokens)

parse_expression(tokens) ==
    The({ IF lhs_expression.raised THEN lhs_expression
          ELSE IF current_category(lhs_expression.tokens) = "PLUS"
          THEN The({ IF rhs_expression.raised THEN rhs_expression
                     ELSE Parsed(AdditionOf(lhs_expression.value, rhs_expression.value,
                                            tokens, lhs_expression.tokens),
                                 rhs_expression.tokens)
                     : rhs_expression \in
                           {parse_expression(advanced(lhs_expression.tokens))} })
          ELSE lhs_expression
          : lhs_expression \in {parse_term(tokens)} })

parse_print(tokens) ==
    LET context == make_context(tokens)
    IN The({ IF opening.raised THEN opening
             ELSE The({ IF expression.raised THEN expression
                        ELSE The({ IF closing.raised THEN closing
                                   ELSE Parsed(EnteredAt(PrintStatement(expression.value,
                                                                        context), tokens),
                                               closing.tokens)
                                   : closing \in {consume(expression.tokens, "RIGHT_PAREN")} })
                        : expression \in {parse_expression(opening.tokens)} })
             : opening \in {consume_each(tokens, <<"PRINT", "LEFT_PAREN">>)} })

\* `let name: type =`, the part of _parse_let before the expression; the
\* value is the name's token and the type.
parse_let_head(tokens) ==
    The({ IF colon.raised THEN colon
          ELSE The({ IF type_name.raised THEN type_name
                     ELSE The({ IF assign.raised THEN assign
                                ELSE Parsed([name_token |-> tokens[2],
                                             type_name |-> type_name.value],
                                            assign.tokens)
                                : assign \in {consume(type_name.tokens, "ASSIGN")} })
                     : type_name \in {parse_type(colon.tokens)} })
          : colon \in {consume_each(tokens, <<"LET", "IDENTIFIER", "COLON">>)} })

parse_let(tokens) ==
    LET context == make_context(tokens)
    IN The({ IF head.raised THEN head
             ELSE The({ IF expression.raised THEN expression
                        ELSE Parsed(EnteredAt(Let(head.value.name_token.lexeme,
                                                  head.value.type_name,
                                                  expression.value, context), tokens),
                                    expression.tokens)
                        : expression \in {parse_expression(head.tokens)} })
             : head \in {parse_let_head(tokens)} })

parse_assignment(tokens) ==
    LET context == make_context(tokens)
    IN The({ IF assign.raised THEN assign
             ELSE The({ IF expression.raised THEN expression
                        ELSE Parsed(EnteredAt(Assignment(tokens[1].lexeme,
                                                         expression.value, context),
                                              tokens),
                                    expression.tokens)
                        : expression \in {parse_expression(assign.tokens)} })
             : assign \in {consume_each(tokens, <<"IDENTIFIER", "ASSIGN">>)} })

parse_return(tokens) ==
    LET context == make_context(tokens)
    IN The({ IF keyword.raised THEN keyword
             ELSE The({ IF expression.raised THEN expression
                        ELSE Parsed(EnteredAt(Return(expression.value, context), tokens),
                                    expression.tokens)
                        : expression \in {parse_expression(keyword.tokens)} })
             : keyword \in {consume(tokens, "RETURN")} })

simple_statement_methodByFirstToken(tokens) ==
    IF current_category(tokens) = "PRINT" THEN "_parse_print"
    ELSE IF current_category(tokens) = "LET" THEN "_parse_let"
    ELSE IF current_category(tokens) = "RETURN" THEN "_parse_return"
    ELSE "_parse_expression"

\* The method _parse_simple_statement hands the statement to.
simple_statement_method(tokens) ==
    IF current_category(tokens) = "PRINT" THEN "_parse_print"
    ELSE IF current_category(tokens) = "LET" THEN "_parse_let"
    ELSE IF next_categories(tokens) = <<"IDENTIFIER", "ASSIGN">> THEN "_parse_assignment"
    ELSE IF current_category(tokens) = "RETURN" THEN "_parse_return"
    ELSE "_parse_expression"

\* The call of that method.
simple_statement(method, tokens) ==
    CASE method = "_parse_print" -> parse_print(tokens)
      [] method = "_parse_let" -> parse_let(tokens)
      [] method = "_parse_assignment" -> parse_assignment(tokens)
      [] method = "_parse_return" -> parse_return(tokens)
      [] method = "_parse_expression" -> parse_expression(tokens)

parse_simple_statement(tokens) ==
    The({ IF statement.raised THEN statement
          ELSE The({ IF newline.raised THEN newline
                     ELSE Parsed(statement.value, newline.tokens)
                     : newline \in {consume(statement.tokens, "NEWLINE")} })
          : statement \in {simple_statement(simple_statement_method(tokens), tokens)} })

Block(statements, ctx) == [node |-> "Block", statements |-> statements, context |-> ctx]
Program(fs, ctx) == [node |-> "Program", functions |-> fs, context |-> ctx]

RECURSIVE parse_statement(_), parse_if(_), parse_block(_), parse_statements(_, _)

\* The while loop of _parse_block.
parse_statements(tokens, statements) ==
    IF current_category(tokens) = "DEDENT" THEN Parsed(statements, tokens)
    ELSE The({ IF statement.raised THEN statement
               ELSE parse_statements(statement.tokens,
                                     Append(statements, statement.value))
               : statement \in {parse_statement(tokens)} })

parse_block(tokens) ==
    LET context == make_context(tokens)
    IN The({ IF indent.raised THEN indent
             ELSE The({ IF statements.raised THEN statements
                        ELSE The({ IF dedent.raised THEN dedent
                                   ELSE Parsed(EnteredAt(Block(statements.value, context),
                                                         tokens),
                                               dedent.tokens)
                                   : dedent \in {consume(statements.tokens, "DEDENT")} })
                        : statements \in {parse_statements(indent.tokens, <<>>)} })
             : indent \in {consume(tokens, "INDENT")} })

\* `if condition:` and the end of the line, the part of _parse_if before the
\* block; the value is the condition.
parse_if_head(tokens) ==
    The({ IF keyword.raised THEN keyword
          ELSE The({ IF condition.raised THEN condition
                     ELSE The({ IF colon.raised THEN colon
                                ELSE Parsed(condition.value, colon.tokens)
                                : colon \in {consume_each(condition.tokens,
                                                          <<"COLON", "NEWLINE">>)} })
                     : condition \in {parse_expression(keyword.tokens)} })
          : keyword \in {consume(tokens, "IF")} })

parse_if(tokens) ==
    LET context == make_context(tokens)
    IN The({ IF condition.raised THEN condition
             ELSE The({ IF consequence.raised THEN consequence
                        ELSE Parsed(EnteredAt(If(condition.value, consequence.value,
                                                 context), tokens),
                                    consequence.tokens)
                        : consequence \in {parse_block(condition.tokens)} })
             : condition \in {parse_if_head(tokens)} })

parse_compound_statement(tokens) == parse_if(tokens)

parse_statement(tokens) ==
    IF current_category(tokens) \in {"IF"} THEN parse_compound_statement(tokens)
    ELSE parse_simple_statement(tokens)

parse_parameter(tokens) ==
    The({ IF colon.raised THEN colon
          ELSE The({ IF type_id.raised THEN type_id
                     ELSE Parsed(Parameter(tokens[1].lexeme, type_id.value), type_id.tokens)
                     : type_id \in {parse_type(colon.tokens)} })
          : colon \in {consume_each(tokens, <<"IDENTIFIER", "COLON">>)} })

\* The while loop of _parse_parameters.
RECURSIVE parse_more_parameters(_, _)
parse_more_parameters(tokens, parameters) ==
    IF current_category(tokens) # "COMMA" THEN Parsed(parameters, tokens)
    ELSE The({ IF parameter.raised THEN parameter
               ELSE parse_more_parameters(parameter.tokens,
                                          Append(parameters, parameter.value))
               : parameter \in {parse_parameter(advanced(tokens))} })

parse_parameters(tokens) ==
    IF current_category(tokens) = "RIGHT_PAREN" THEN Parsed(<<>>, tokens)
    ELSE The({ IF parameter.raised THEN parameter
               ELSE parse_more_parameters(parameter.tokens, <<parameter.value>>)
               : parameter \in {parse_parameter(tokens)} })

\* `def name(parameters) -> type:` and the end of the line, the part of
\* _parse_function before the block; the value is the name's token, the
\* parameters and the return type.
parse_function_head(tokens) ==
    The({ IF paren.raised THEN paren
          ELSE The({ IF parameters.raised THEN parameters
          ELSE The({ IF arrow.raised THEN arrow
          ELSE The({ IF return_type_id.raised THEN return_type_id
          ELSE The({ IF colon.raised THEN colon
                     ELSE Parsed([identifier |-> tokens[2],
                                  parameters |-> parameters.value,
                                  return_type_id |-> return_type_id.value],
                                 colon.tokens)
                     : colon \in {consume_each(return_type_id.tokens,
                                               <<"COLON", "NEWLINE">>)} })
          : return_type_id \in {parse_type(arrow.tokens)} })
          : arrow \in {consume_each(parameters.tokens, <<"RIGHT_PAREN", "ARROW">>)} })
          : parameters \in {parse_parameters(paren.tokens)} })
          : paren \in {consume_each(tokens, <<"DEF", "IDENTIFIER", "LEFT_PAREN">>)} })

parse_function(tokens) ==
    LET context == make_context(tokens)
    IN The({ IF head.raised THEN head
             ELSE The({ IF block.raised THEN block
                        ELSE Parsed(EnteredAt(With(Function(head.value.identifier.lexeme,
                                                            head.value.parameters,
                                                            head.value.return_type_id,
                                                            context),
                                                   "code_block", block.value), tokens),
                                    block.tokens)
                        : block \in {parse_block(head.tokens)} })
             : head \in {parse_function_head(tokens)} })

\* The while loop of _parse_program.
RECURSIVE parse_functions(_, _)
parse_functions(tokens, fs) ==
    IF current_category(tokens) = "EOF" THEN Parsed(fs, tokens)
    ELSE The({ IF f.raised THEN f
               ELSE parse_functions(f.tokens, Append(fs, f.value))
               : f \in {parse_function(tokens)} })

parse_program(tokens) ==
    LET context == make_context(tokens)
    IN The({ IF fs.raised THEN fs
             ELSE Parsed(EnteredAt(Program(fs.value, context), tokens), fs.tokens)
             : fs \in {parse_functions(IF current_category(tokens) = "NEWLINE"
                                       THEN advanced(tokens) ELSE tokens, <<>>)} })

parse(tokens) == parse_program(tokens)

(***************************************************************************)
(* SpecParser: a Parser is constructed on a token list that ends with EOF  *)
(* and one of its methods is called: parse, _parse_simple_statement or     *)
(* _consume.  The token lists are the programs below, the programs with    *)
(* one token missing, and what is left of them from any token on.          *)
(***************************************************************************)
Parser(tokens) ==
    [tokens |-> tokens, pc |-> "ready", call |-> "none", category |-> "none",
     outcome |-> [raised |-> FALSE]]

Called(p, call, category, outcome) ==
    [p EXCEPT !.pc = IF outcome.raised THEN "raised" ELSE "returned",
              !.call = call, !.category = category, !.outcome = outcome]

ParserParse ==
    /\ parser.pc = "ready"
    /\ parser' = Called(parser, "parse", "none", parse(parser.tokens))
    /\ UNCHANGED <<checker, last, scanner, driver, codegen>>

ParserSimpleStatement ==
    /\ parser.pc = "ready"
    /\ parser' = Called(parser, "_parse_simple_statement", "none",
                        parse_simple_statement(parser.tokens))
    /\ UNCHANGED <<checker, last, scanner, driver, codegen>>

ParserConsume(category) ==
    /\ parser.pc = "ready"
    /\ parser' = Called(parser, "_consume", category, consume(parser.tokens, category))
    /\ UNCHANGED <<checker, last, scanner, driver, codegen>>

LexemeOf(category) ==
    CASE category = "IDENTIFIER" -> <<"x">>
      [] category = "UNSIGNEDINT" -> <<"1">>
      [] category = "VOID" -> <<"v", "o", "i", "d">>
      [] category = "BOOL" -> <<"b", "o", "o", "l">>
      [] category = "U8" -> <<"u", "8">>
      [] OTHER -> <<>>

\* The tokens of the given categories, each at a position of its own.
TokensOf(categories) ==
    [i \in 1..Len(categories) |-> Token(1, i, categories[i], LexemeOf(categories[i]))]

StatementTokens ==
    { <<"PRINT", "LEFT_PAREN", "IDENTIFIER", "PLUS", "UNSIGNEDINT", "RIGHT_PAREN", "NEWLINE">>,
      <<"LET", "IDENTIFIER", "COLON", "U8", "ASSIGN", "MINUS", "UNSIGNEDINT", "NEWLINE">>,
      <<"LET", "IDENTIFIER", "COLON", "IDENTIFIER", "LEFT_BRACKET", "LEFT_BRACKET", "U8",
        "RIGHT_BRACKET", "U8", "RIGHT_PAREN", "ASSIGN", "IDENTIFIER", "NEWLINE">>,
      <<"IDENTIFIER", "ASSIGN", "LEFT_PAREN", "IDENTIFIER", "RIGHT_PAREN", "PLUS",
        "IDENTIFIER", "PLUS", "UNSIGNEDINT", "NEWLINE">>,
      <<"RETURN", "TRUE", "NEWLINE">>,
      <<"IDENTIFIER", "LEFT_PAREN", "IDENTIFIER", "COMMA", "PLUS", "UNSIGNEDINT",
        "RIGHT_PAREN", "NEWLINE">>,
      <<"IDENTIFIER", "PLUS", "UNSIGNEDINT", "NEWLINE">>,
      <<"IDENTIFIER", "NEWLINE">>,
      <<"IF", "IDENTIFIER", "COLON", "NEWLINE", "INDENT", "RETURN", "UNSIGNEDINT",
        "NEWLINE", "DEDENT">> }

RECURSIVE BodyTokens(_)
BodyTokens(statements) ==
    IF statements = 0 THEN { <<>> }
    ELSE LET shorter == BodyTokens(statements - 1)
         IN shorter \cup { body \o statement : body \in shorter,
                                               statement \in StatementTokens }

FunctionTokens(parameters, return_type, body) ==
    <<"DEF", "IDENTIFIER", "LEFT_PAREN">> \o parameters \o <<"RIGHT_PAREN", "ARROW">>
        \o return_type \o <<"COLON", "NEWLINE", "INDENT">> \o body \o <<"DEDENT">>

ProgramTokens(statements) ==
    { FunctionTokens(<<>>, <<"VOID">>, body) \o <<"EOF">> : body \in BodyTokens(statements) }
    \cup
    { <<"NEWLINE">>
        \o FunctionTokens(<<"IDENTIFIER", "COLON", "U8", "COMMA", "IDENTIFIER", "COLON",
                            "BOOL">>, <<"U8">>, body)
        \o FunctionTokens(<<>>, <<"IDENTIFIER">>, <<"RETURN", "UNSIGNEDINT", "NEWLINE">>)
        \o <<"EOF">> : body \in BodyTokens(statements) }

\* The categories with one of them, not the closing EOF, missing.
OneMissing(categories) ==
    { SubSeq(categories, 1, i - 1) \o SubSeq(categories, i + 1, Len(categories)) :
        i \in 1..(Len(categories) - 1) }

ParserInputs ==
    ProgramTokens(MaxStatements)
        \cup UNION { OneMissing(categories) : categories \in ProgramTokens(1) }

From(tokens) == { SubSeq(tokens, i, Len(tokens)) : i \in 1..Len(tokens) }

ConsumedCategories == {"IDENTIFIER", "NEWLINE", "DEF"}

ParserInit ==
    /\ parser \in { Parser(tokens) :
                      tokens \in UNION { From(TokensOf(categories)) :
                                           categories \in ParserInputs } }
    /\ scanner = NoScanner
    /\ driver = NoDriver
    /\ codegen = NoCodegen
    /\ last = NoVisit
    /\ NoChecker

NextParser ==
    \/ ParserParse
    \/ ParserSimpleStatement
    \/ \E category \in ConsumedCategories : ParserConsume(category)

SpecParser == ParserInit /\ [][NextParser]_vars

(***************************************************************************)
(* zx64c.codegen: the labels of Z80CodegenVisitor.  What the visitor       *)
(* prints is a sequence of lines; an instruction line is the text behind   *)
(* its indentation, a label line the label before its colon.               *)
(***************************************************************************)
Instruction(text) == [line |-> "instruction", text |-> text]
LoadA(value) == [line |-> "ld a", value |-> value]
JumpIfNotZero(label) == [line |-> "jp nz", label |-> label]
LabelLine(label) == [line |-> "label", label |-> label]

\* A make_label that numbers the labels by the calls made before.
make_labelNumbered(c) == <<"LB", c.made>>

\* make_label, where the module stands at c: "LB" and the digits of _LABEL.
make_label(c) == <<"LB", c.LABEL>>

\* The module once loaded and a visitor about to visit a Block: _LABEL,
\* the number of make_label calls so far, the labels of the visit_if calls
\* in progress, the lines printed and the number of nodes visited.
Codegen == [pc |-> "block", LABEL |-> 0, made |-> 0, open |-> <<>>, output |-> <<>>,
            visited |-> 0]

\* visit_if up to the visit of its consequence; the condition is a Bool.
CodegenVisitIf(value) ==
    /\ codegen.pc = "block"
    /\ codegen.visited < MaxNodes
    /\ Len(codegen.open) < MaxDepth
    /\ LET label == make_label(codegen)
       IN codegen' = [codegen EXCEPT
                         !.made = @ + 1,
                         !.open = Append(@, label),
                         !.output = @ \o <<LoadA(value), Instruction("cp $01"),
                                           JumpIfNotZero(label)>>,
                         !.visited = @ + 1]
    /\ UNCHANGED <<checker, last, scanner, driver, parser>>

\* visit_if after the visit of its consequence.
CodegenEndIf ==
    /\ codegen.pc = "block"
    /\ codegen.open # <<>>
    /\ codegen' = [codegen EXCEPT
                      !.open = SubSeq(@, 1, Len(@) - 1),
                      !.output = Append(@, LabelLine(codegen.open[Len(codegen.open)]))]
    /\ UNCHANGED <<checker, last, scanner, driver, parser>>

\* visit_print of a Bool.
CodegenVisitPrint(value) ==
    /\ codegen.pc = "block"
    /\ codegen.visited < MaxNodes
    /\ codegen' = [codegen EXCEPT
                      !.output = @ \o <<LoadA(value), Instruction("rst $10")>>,
                      !.visited = @ + 1]
    /\ UNCHANGED <<checker, last, scanner, driver, parser>>

(***************************************************************************)
(* SpecCodegen: the code of blocks of up to MaxNodes `print` and `if`      *)
(* statements over true and false, the `if`s nested up to MaxDepth.        *)
(***************************************************************************)
CodegenInit ==
    /\ codegen = Codegen
    /\ scanner = NoScanner
    /\ driver = NoDriver
    /\ parser = NoParser
    /\ last = NoVisit
    /\ NoChecker

NextCodegen ==
    \/ \E value \in {0, 1} : CodegenVisitIf(value)
    \/ CodegenEndIf
    \/ \E value \in {0, 1} : CodegenVisitPrint(value)

SpecCodegen == CodegenInit /\ [][NextCodegen]_vars

(***************************************************************************)
(* Claims about scopes and the collection of errors, checked under Spec.   *)
(***************************************************************************)
Failing(results) == SelectSeq(results, LAMBDA r : r.raised)
ErrorsOf(results) == [i \in 1..Len(results) |-> results[i].error]

\* C1: a Block whose statements raised K errors raises one Combined error
\* holding exactly those K errors, in the order of the statements; a Block
\* none of whose statements raised returns Void.
C1_ErrorAggregation ==
    last.visit = "visit_block" =>
        LET failing == Failing(last.results)
        IN IF failing = <<>> THEN last.result = Returns(VOID)
           ELSE last.result = Raises(CombinedTypecheckError(ErrorsOf(failing)))

\* A Block of three statements, the first and the last of which failed with
\* different errors, has finished.
C1_Witness ==
    /\ last.visit = "visit_block"
    /\ Len(last.results) = 3
    /\ last.results[1].raised /\ ~last.results[2].raised /\ last.results[3].raised
    /\ last.results[1].error.e # last.results[3].error.e

\* The names the Block that just finished declared in its own scope and
\* that no enclosing scope binds.
DeclaredOnlyInBlock ==
    { x \in DOMAIN last.before[last.started + 1].variable_types :
        ~has_variable(SubSeq(last.before, 1, last.started), x) }

\* C2: once the Block of an `if` has closed, a reference to a variable that
\* only that Block declared raises UndefinedVariable, whatever else the
\* Block contained.
C2_IfBlockDoesNotLeak ==
    (last.visit = "visit_block" /\ last.consequence) =>
        \A x \in DeclaredOnlyInBlock :
            VisitExpression(scopes, Identifier(x, At(lineno, 7)))
                = Raises(UndefinedVariableError(x, At(lineno, 7)))

\* C3: when visit_block or visit_function finishes, by returning or by
\* raising, the stack holds as many scopes as when the visit started.
C3_StackBalanced ==
    last.visit \in {"visit_block", "visit_function"} => Len(scopes) = last.started

\* C4: a `let` whose right-hand side type-checks raises
\* AlreadyDefinedVariable if and only if the innermost scope binds its name.
C4_LetChecksInnermostScope ==
    (/\ last.visit = "statement"
     /\ last.node.node = "Let"
     /\ ~VisitExpression(last.before, last.node.rhs).raised) =>
        ( last.result = Raises(AlreadyDefinedVariableError(last.node.name,
                                                           last.node.context))
          <=> last.node.name \in
                  DOMAIN last.before[Len(last.before)].variable_types )

(***************************************************************************)
(* Claims about functions, checked under SpecFunctions and SpecTypes.      *)
(***************************************************************************)
IsNoReturn(res) == res.raised /\ res.error.e = "NoReturn"

\* C6, as claimed: a function of a non-Void return type whose body holds
\* no Return raises NoReturn(return type, name, context); a function whose
\* body holds a correctly typed Return, or whose return type is Void, does
\* not raise NoReturn.
C6_NoReturn ==
    last.visit = "visit_function" =>
        /\ (last.node.return_type # VOID /\ ~last.any_return) =>
               last.result = Raises(NoReturnError(last.node.return_type, last.node.name,
                                                  last.node.context))
        /\ (last.typed_return \/ last.node.return_type = VOID) => ~IsNoReturn(last.result)

\* C6, amended: the same, for a body whose Block raised nothing; a body
\* that raised passes its Combined error on in place of NoReturn.
C6_NoReturnUnlessBodyRaised ==
    last.visit = "visit_function" =>
        /\ (last.node.return_type # VOID /\ ~last.any_return /\ ~last.block.raised) =>
               last.result = Raises(NoReturnError(last.node.return_type, last.node.name,
                                                  last.node.context))
        /\ (last.node.return_type # VOID /\ ~last.any_return /\ last.block.raised) =>
               last.result = last.block
        /\ (last.typed_return \/ last.node.return_type = VOID) => ~IsNoReturn(last.result)

\* A function that returns u8 and whose body held no Return and raised
\* nothing has raised NoReturn.
C6_Witness ==
    /\ last.visit = "visit_function"
    /\ last.node.return_type = U8
    /\ ~last.any_return
    /\ ~last.block.raised
    /\ IsNoReturn(last.result)
    /\ Len(last.before) = last.started + 1

FunctionDefined(name) == \E i \in 1..Len(functions) : functions[i].name = name
ParameterNamed(name) ==
    \E i \in 1..Len(functions) :
        \E p \in 1..Len(functions[i].parameters) : functions[i].parameters[p].name = name
IsUndefinedVariable(res) == res.raised /\ res.error.e = "UndefinedVariable"

LatestNamed(name) ==
    functions[CHOOSE i \in 1..Len(functions) :
                 /\ functions[i].name = name
                 /\ \A j \in 1..Len(functions) : functions[j].name = name => j <= i]

IsConcrete(t) == t.k \notin {"TypeIdentifier", "NumberLiteral"}
UndefinedUserType(t) == isTypeIdentifier(t) /\ ~has_type(scopes, t.name)

\* C8: after a Program type-checked with no error, every type a variable
\* or parameter was bound to is concrete, and no parameter was declared
\* with a user type that is not defined.
C8_BindingsConcrete ==
    (pc = "done" /\ ~result.raised) =>
        /\ \A t \in bound_types : IsConcrete(t)
        /\ \A i \in 1..Len(functions) :
              \A p \in 1..Len(functions[i].parameters) :
                  ~UndefinedUserType(functions[i].parameters[p].type_id)

(***************************************************************************)
(* Claims about calls, checked under SpecCalls.                            *)
(***************************************************************************)
\* C5: a call of a callee of N parameters with A arguments raises
\* NotEnoughArguments(f, A, N, ctx) when A < N and TooManyArguments(f, A, N,
\* ctx) when A > N; when A = N and every argument has the type of its
\* parameter the call has the callee's return type.
C5_Arity ==
    (/\ last.visit = "call"
     /\ ~get_variable_type(last.before, last.node.function_name, last.node.context).raised
     /\ isCallable(get_variable_type(last.before, last.node.function_name,
                                     last.node.context).type)) =>
        LET f == last.node.function_name
            ctx == last.node.context
            callee == get_variable_type(last.before, f, ctx).type
            N == Len(callee.parameter_types)
            A == Len(last.node.arguments)
        IN /\ A < N => last.result = Raises(NotEnoughArguments(f, A, N, ctx))
           /\ A > N => last.result = Raises(TooManyArguments(f, A, N, ctx))
           /\ (/\ A = N
               /\ \A i \in 1..N :
                     VisitExpression(last.before, last.node.arguments[i])
                         = Returns(callee.parameter_types[i])) =>
                  last.result = Returns(callee.return_type)

\* A call of a callee of two parameters with two arguments of the right
\* types has returned the callee's return type.
C5_Witness ==
    /\ last.visit = "call"
    /\ Len(last.node.arguments) = 2
    /\ last.result = Returns(U8)

(***************************************************************************)
(* Claims about the scanner, checked under SpecScan.                       *)
(***************************************************************************)
CountOf(category, tokens) ==
    Cardinality({ i \in 1..Len(tokens) : tokens[i].category = category })

LeadingSpaces(characters) == Len(takewhile(IsSpace, characters))

\* The line that starts `characters` holds only spaces before its newline.
BlankLine(characters) ==
    /\ LeadingSpaces(characters) < Len(characters)
    /\ characters[LeadingSpaces(characters) + 1] = "\n"

\* C10: at every point of a scan the INDENT tokens emitted so far less the
\* DEDENT tokens emitted so far are as many as the indentation level, which
\* is never negative; a line evaluated with 4*k leading spaces at level l
\* has emitted |k - l| tokens, INDENT if k > l and DEDENT if k < l, and has
\* set the level to k.
C10_IndentationLevel ==
    scanner.pc # "none" =>
        /\ CountOf("INDENT", scanner.produced_tokens)
               - CountOf("DEDENT", scanner.produced_tokens) = scanner.indent_level
        /\ scanner.indent_level >= 0
        /\ (/\ last.visit = "consume_possible_indentations"
            /\ ~BlankLine(last.remaining_source)
            /\ LeadingSpaces(last.remaining_source) % IndentWidth = 0) =>
               LET k == LeadingSpaces(last.remaining_source) \div IndentWidth
                   l == last.indent_level
               IN /\ Len(last.indents) = IF k > l THEN k - l ELSE l - k
                  /\ \A i \in 1..Len(last.indents) :
                        last.indents[i].category = IF k > l THEN "INDENT" ELSE "DEDENT"
                  /\ scanner.indent_level = k

\* A line without indentation was evaluated at level 2 and two DEDENT
\* tokens were emitted.
C10_Witness ==
    /\ last.visit = "consume_possible_indentations"
    /\ last.indent_level = 2
    /\ scanner.indent_level = 0
    /\ Len(last.indents) = 2
    /\ CountOf("DEDENT", scanner.produced_tokens) = 2

(***************************************************************************)
(* Claims about the driver, checked under SpecDriver.                      *)
(***************************************************************************)
StageOrder == <<"scan", "parse", "typecheck", "codegen">>

\* C9: the stages start in the order scan, parse, type check, code
\* generation, each after the one before it has come to its end without an
\* error: no parse after a ScanError, no type check after a ParseError and
\* no code generation after a TypecheckError.
C9_StagesInOrder ==
    driver.pc # "none" =>
        LET stages == driver.stages
        IN /\ Len(stages) <= Len(StageOrder)
           /\ \A i \in 1..Len(stages) : stages[i].stage = StageOrder[i]
           /\ \A i \in 1..(Len(stages) - 1) : stages[i].outcome = "ok"
           /\ scanner.pc = "scanning" => Len(stages) = 1
           /\ Len(stages) >= 2 => scanner.pc = "returned"
           /\ Len(stages) >= 3 => driver.parse = "Program"
           /\ pc # "idle" => Len(stages) >= 3
           /\ pc \notin {"idle", "done"} => Len(stages) = 3
           /\ Len(stages) = 4 => pc = "done" /\ ~result.raised

\* The type check raised and z64c returned without generating code.
C9_Witness ==
    /\ driver.pc = "returned"
    /\ Len(driver.stages) = 3
    /\ driver.stages[3].outcome = "error"
    /\ result.raised

\* The positions of the source at which a line starts, and the line from
\* such a position on.
LineStarts(source) ==
    {1} \cup { i + 1 : i \in { j \in 1..Len(source) : source[j] = "\n" } }
LineFrom(source, start) == SubSeq(source, start, Len(source))

\* The line holds a token (a character that is neither a space nor the
\* newline) after a number of spaces that is not a multiple of 4.
UnevenTokenLine(characters) ==
    /\ LeadingSpaces(characters) % IndentWidth # 0
    /\ LeadingSpaces(characters) < Len(characters)
    /\ characters[LeadingSpaces(characters) + 1] # "\n"

ScanEnded == scanner.pc \in {"returned", "raised"}
Recognized(source) == \A i \in 1..Len(source) : source[i] # "$"

\* C11: the scan of a source one of whose lines, whichever, holds a token
\* after a number of spaces that is not a multiple of 4 raises
\* UnevenIndentError and returns no tokens (of a source all of whose
\* characters some lexical rule accepts, so that no other error comes
\* first).
C11_UnevenIndentAlwaysRaises ==
    (/\ ScanEnded
     /\ Recognized(scanner.source)
     /\ \E start \in LineStarts(scanner.source) :
           UnevenTokenLine(LineFrom(scanner.source, start))) =>
        /\ scanner.pc = "raised"
        /\ scanner.error.e = "UnevenIndentError"
        /\ scanner.tokens = <<>>

(***************************************************************************)
(* Claims about lexemes, checked under SpecTokens.                         *)
(***************************************************************************)
\* The reserved keywords and their token categories.
ReservedKeywords ==
    KEYWORD_CATEGORIES
        \cup { [keyword |-> <<"d", "e", "f">>, category |-> "DEF"],
               [keyword |-> <<"r", "e", "t", "u", "r", "n">>, category |-> "RETURN"],
               [keyword |-> <<"v", "o", "i", "d">>, category |-> "VOID"] }

WordCategory(run) ==
    IF \E k \in ReservedKeywords : k.keyword = run
    THEN (CHOOSE k \in ReservedKeywords : k.keyword = run).category
    ELSE "IDENTIFIER"

\* The scanner stands before a letter or an underscore.
AtWord ==
    /\ Scanning
    /\ is_identifier_leading_character(remaining_source(scanner)[1])

\* C12: a step of the scan that starts at a letter or an underscore consumes
\* the longest run of identifier characters as one token, whose category is
\* that of the reserved keyword the whole run equals and IDENTIFIER when it
\* equals none, and whose lexeme is the run.
C12_WordsAreOneToken ==
    [][AtWord =>
          LET run == takewhile(IdentifierCharacters, remaining_source(scanner))
          IN scanner' =
                 [scanner EXCEPT
                     !.source_index = @ + Len(run),
                     !.column = @ + Len(run),
                     !.produced_tokens =
                         Append(@, Token(scanner.line, scanner.column,
                                         WordCategory(run), run))]]_vars

\* The step has emitted one token of the category and the lexeme, at the
\* position the scanner stood at, and has moved on by the lexeme's length
\* on the same line.
EmitsOne(category, lexeme) ==
    scanner' =
        [scanner EXCEPT
            !.source_index = @ + Len(lexeme),
            !.column = @ + Len(lexeme),
            !.produced_tokens =
                Append(@, Token(scanner.line, scanner.column, category, lexeme))]

\* C13: where the remaining source starts with `==` or `->` the scan emits
\* the one token EQUAL or ARROW and moves on by two columns; a `=` or `-`
\* that starts neither yields ASSIGN or MINUS.
C13_LongestOperatorFirst ==
    [][Scanning =>
          LET remaining == remaining_source(scanner)
          IN /\ startswith(remaining, <<"=", "=">>) => EmitsOne("EQUAL", <<"=", "=">>)
             /\ startswith(remaining, <<"-", ">">>) => EmitsOne("ARROW", <<"-", ">">>)
             /\ (startswith(remaining, <<"=">>) /\ ~startswith(remaining, <<"=", "=">>)) =>
                    EmitsOne("ASSIGN", <<"=">>)
             /\ (startswith(remaining, <<"-">>) /\ ~startswith(remaining, <<"-", ">">>)) =>
                    EmitsOne("MINUS", <<"-">>)]_vars

(***************************************************************************)
(* Claims about the tokens a scan returns, checked under SpecScan.         *)
(***************************************************************************)
\* The 1-based line and column of character number i of the source, which
\* is the position after the last character for i = Len(source) + 1.
NewlinesBefore(source, i) == { j \in 1..(i - 1) : source[j] = "\n" }
PositionOf(source, i) ==
    [line |-> 1 + Cardinality(NewlinesBefore(source, i)),
     column |-> i - (IF NewlinesBefore(source, i) = {} THEN 0
                     ELSE CHOOSE j \in NewlinesBefore(source, i) :
                              \A k \in NewlinesBefore(source, i) : k <= j)]

\* The token's lexeme stands in the source at the token's position.
StandsAtItsPosition(token, source) ==
    \E i \in 1..Len(source) :
        /\ PositionOf(source, i) = [line |-> token.line, column |-> token.column]
        /\ i + Len(token.lexeme) - 1 <= Len(source)
        /\ SubSeq(source, i, i + Len(token.lexeme) - 1) = token.lexeme

\* C14: in the tokens of a successful scan every token but INDENT and DEDENT
\* carries the line and column of the first character of its lexeme, and EOF
\* is the last token and no other, at the position after the last character
\* of the source.
C14_TokenPositions ==
    scanner.pc = "returned" =>
        LET tokens == scanner.tokens
        IN /\ \A n \in 1..Len(tokens) :
                 tokens[n].category \notin {"INDENT", "DEDENT", "EOF"} =>
                     StandsAtItsPosition(tokens[n], scanner.source)
           /\ Len(tokens) >= 1
           /\ \A n \in 1..Len(tokens) : tokens[n].category = "EOF" <=> n = Len(tokens)
           /\ [line |-> tokens[Len(tokens)].line, column |-> tokens[Len(tokens)].column]
                  = PositionOf(scanner.source, Len(scanner.source) + 1)

\* A scan has returned a token of the second line that stands after one
\* indentation, and the source ends with a newline.
C14_Witness ==
    /\ scanner.pc = "returned"
    /\ \E n \in 1..Len(scanner.tokens) :
          /\ scanner.tokens[n].category = "IDENTIFIER"
          /\ scanner.tokens[n].line = 2
          /\ scanner.tokens[n].column = 5
    /\ scanner.source[Len(scanner.source)] = "\n"

IsNewline(token) == token.category = "NEWLINE"
AdjacentNewlines(tokens) ==
    \E n \in 1..(Len(tokens) - 1) : IsNewline(tokens[n]) /\ IsNewline(tokens[n + 1])

\* The categories of the tokens, every run of NEWLINE cut down to one.
RECURSIVE RunsCollapsed(_)
RunsCollapsed(tokens) ==
    IF tokens = <<>> THEN <<>>
    ELSE IF Len(tokens) >= 2 /\ IsNewline(tokens[1]) /\ IsNewline(tokens[2])
    THEN RunsCollapsed(Tail(tokens))
    ELSE <<tokens[1].category>> \o RunsCollapsed(Tail(tokens))

Categories(tokens) == [n \in 1..Len(tokens) |-> tokens[n].category]
NotNewline(token) == ~IsNewline(token)

\* C15: the tokens a scan returns hold no two adjacent NEWLINE tokens: they
\* are the tokens produced, every run of NEWLINE tokens cut down to one and
\* the tokens of the other categories all kept, in their order.
C15_NewlinesCollapsed ==
    scanner.pc = "returned" =>
        LET returned == SubSeq(scanner.tokens, 1, Len(scanner.tokens) - 1)
        IN /\ ~AdjacentNewlines(scanner.tokens)
           /\ Categories(returned) = RunsCollapsed(scanner.produced_tokens)
           /\ SelectSeq(returned, NotNewline) = SelectSeq(scanner.produced_tokens, NotNewline)

\* A scan that produced two adjacent NEWLINE tokens between two identifiers
\* has returned.
C15_Witness ==
    /\ scanner.pc = "returned"
    /\ AdjacentNewlines(scanner.produced_tokens)
    /\ Categories(scanner.tokens) = <<"IDENTIFIER", "NEWLINE", "IDENTIFIER", "EOF">>

(***************************************************************************)
(* Claims about how a scan ends, checked under SpecTokens.                 *)
(***************************************************************************)
\* The characters of the sources that no lexical rule accepts.
NoRuleFor(c) == c \in {"$", ">"}

\* C16: a scan ends with the complete token list or with exactly one
\* ScanError and no tokens; it returns only if some rule accepts every
\* character, and the UnrecognizedTokenError it raises carries the line, the
\* column and the character of the position it stopped at, a character no
\* rule accepts.
C16_AllOrNothing ==
    ScanEnded =>
        /\ \/ /\ scanner.pc = "returned"
              /\ scanner.error.e = "None"
              /\ scanner.tokens # <<>>
              /\ \A i \in 1..Len(scanner.source) : ~NoRuleFor(scanner.source[i])
           \/ /\ scanner.pc = "raised"
              /\ scanner.error.e \in {"UnrecognizedTokenError", "UnevenIndentError"}
              /\ scanner.tokens = <<>>
        /\ scanner.error.e = "UnrecognizedTokenError" =>
              /\ NoRuleFor(scanner.source[scanner.source_index + 1])
              /\ scanner.error =
                     UnrecognizedTokenError(
                         PositionOf(scanner.source, scanner.source_index + 1).line,
                         PositionOf(scanner.source, scanner.source_index + 1).column,
                         scanner.source[scanner.source_index + 1])

(***************************************************************************)
(* Claims about the Parser, checked under SpecParser.  parser.tokens are   *)
(* the tokens the Parser was constructed on, parser.outcome what the call  *)
(* came to and the tokens left after it.                                   *)
(***************************************************************************)
PositionOfToken(token) == SourceContext(token.line, token.column)

\* C17: _consume(category) on a current token of another category raises
\* UnexpectedTokenError(expected [category], got the current token's
\* category, context the current token's line and column) and leaves the
\* position where it was; on a current token of that category it advances
\* by exactly one token and returns that token.
C17_ConsumeChecksCategory ==
    parser.call = "_consume" =>
        IF parser.tokens[1].category # parser.category
        THEN /\ parser.outcome.raised
             /\ parser.outcome.error =
                    UnexpectedTokenError(<<parser.category>>, parser.tokens[1].category,
                                         PositionOfToken(parser.tokens[1]))
             /\ parser.outcome.tokens = parser.tokens
        ELSE /\ ~parser.outcome.raised
             /\ parser.outcome.value = parser.tokens[1]
             /\ parser.outcome.tokens = Tail(parser.tokens)

\* _consume(NEWLINE) was called on a current IDENTIFIER and raised.
C17_Witness ==
    /\ parser.call = "_consume"
    /\ parser.category = "NEWLINE"
    /\ parser.tokens[1].category = "IDENTIFIER"
    /\ parser.outcome.raised

Elements(sequence) == { sequence[i] : i \in DOMAIN sequence }

\* The nodes a node is built from.
Children(n) ==
    CASE n.node = "Program" -> Elements(n.functions)
      [] n.node = "Function" -> {n.code_block}
      [] n.node = "Block" -> Elements(n.statements)
      [] n.node = "If" -> {n.condition, n.consequence}
      [] n.node \in {"Print", "Negation"} -> {n.expression}
      [] n.node \in {"Let", "Assignment"} -> {n.rhs}
      [] n.node = "Return" -> {n.expr}
      [] n.node = "Addition" -> {n.lhs, n.rhs}
      [] n.node = "FunctionCall" -> Elements(n.arguments)
      [] OTHER -> {}

RECURSIVE NodesOf(_)
NodesOf(n) == {n} \cup UNION { NodesOf(child) : child \in Children(n) }

\* A node was returned by parse or by _parse_simple_statement.
NodeReturned ==
    parser.call \in {"parse", "_parse_simple_statement"} /\ ~parser.outcome.raised

\* C18 as stated: every node of a returned tree has as context the position
\* of the first token of its construct, the token that was current when the
\* method that builds the node was entered.
C18_ContextIsFirstToken ==
    NodeReturned => \A n \in NodesOf(parser.outcome.value) : n.context = n.first

\* The context is the position of a PLUS token of the token list.
AtPlus(context) ==
    \E i \in DOMAIN parser.tokens :
        /\ PositionOfToken(parser.tokens[i]) = context
        /\ parser.tokens[i].category = "PLUS"

\* C18, amended: every node but an Addition has as context the position of
\* the first token of its construct; an Addition has the position of its
\* PLUS token, which lies after the first token of its left operand and
\* before the first token of its right operand.
C18_ContextIsFirstTokenOrOperator ==
    NodeReturned =>
        \A n \in NodesOf(parser.outcome.value) :
            IF n.node = "Addition"
            THEN /\ AtPlus(n.context)
                 /\ n.context.line = n.lhs.first.line
                 /\ n.lhs.first.column < n.context.column
                 /\ n.context.column < n.rhs.first.column
            ELSE n.context = n.first

\* parse returned a Program with an Addition whose right operand is an
\* Addition and whose left operand was written in parentheses.
C18_Witness ==
    /\ parser.call = "parse"
    /\ ~parser.outcome.raised
    /\ \E n \in NodesOf(parser.outcome.value) :
          /\ n.node = "Addition"
          /\ n.rhs.node = "Addition"
          /\ n.lhs.first.column > n.first.column

\* The number of tokens the call consumed before it returned or raised.
Consumed == Len(parser.tokens) - Len(parser.outcome.tokens)

\* C19: _parse_simple_statement decides on the next two categories and does
\* not go back on it: IDENTIFIER ASSIGN is parsed as an Assignment, and an
\* error in it is raised past the ASSIGN; IDENTIFIER before any other token
\* is parsed as an expression, an Identifier, a FunctionCall or an Addition;
\* the statement returned ends with the NEWLINE consumed after it.
C19_StatementDispatch ==
    parser.call = "_parse_simple_statement" /\ parser.tokens[1].category = "IDENTIFIER" =>
        IF parser.tokens[2].category = "ASSIGN"
        THEN IF parser.outcome.raised
             THEN /\ Consumed >= 2
                  /\ parser.outcome.error.e = "UnexpectedTokenError"
             ELSE /\ parser.outcome.value.node = "Assignment"
                  /\ parser.tokens[Consumed].category = "NEWLINE"
        ELSE IF parser.outcome.raised
             THEN parser.outcome.error.e = "UnexpectedTokenError"
             ELSE /\ parser.outcome.value.node \in {"Identifier", "FunctionCall", "Addition"}
                  /\ parser.tokens[Consumed].category = "NEWLINE"

\* _parse_simple_statement met IDENTIFIER ASSIGN and raised in the
\* expression of the Assignment.
C19_Witness ==
    /\ parser.call = "_parse_simple_statement"
    /\ parser.tokens[1].category = "IDENTIFIER"
    /\ parser.tokens[2].category = "ASSIGN"
    /\ parser.outcome.raised
    /\ Consumed > 2

\* C20: parse of a token list that ends with EOF returns one Program, the
\* EOF not consumed, or raises one UnexpectedTokenError that names the token
\* the Parser stopped at, a token it did not expect there; in either case
\* the closing EOF is still among the tokens left.
C20_ParseEndsWithProgramOrUnexpectedToken ==
    parser.call = "parse" =>
        /\ parser.outcome.tokens # <<>>
        /\ parser.outcome.tokens[Len(parser.outcome.tokens)].category = "EOF"
        /\ IF parser.outcome.raised
           THEN /\ parser.outcome.error.e = "UnexpectedTokenError"
                /\ parser.outcome.error.context =
                       PositionOfToken(parser.outcome.tokens[1])
                /\ parser.outcome.error.encountered_token =
                       parser.outcome.tokens[1].category
                /\ parser.outcome.error.encountered_token
                       \notin Elements(parser.outcome.error.expected_tokens)
           ELSE /\ parser.outcome.value.node = "Program"
                /\ parser.outcome.tokens[1].category = "EOF"


(***************************************************************************)
(* C21.  Assignment `x = e`, e of some type: the type of x is that of the  *)
(* innermost open scope that binds x.  With no such scope the visit raises *)
(* UndefinedVariable(x); with one, it succeeds when the type of e equals   *)
(* the declared type and raises TypeMismatch(declared, received)           *)
(* otherwise, u8 against i8 included.  No scope changes, whatever the      *)
(* visit comes to.                                                         *)
(***************************************************************************)
\* The scopes that bind the name, and the binding of the innermost of them.
Binders(ss, name) == { i \in 1..Len(ss) : name \in DOMAIN ss[i].variable_types }
InnermostBinding(ss, name) ==
    ss[CHOOSE i \in Binders(ss, name) : \A j \in Binders(ss, name) : j <= i]
        .variable_types[name]

AssignmentVisited == last.visit = "statement" /\ last.node.node = "Assignment"

C21_Assignment ==
    AssignmentVisited =>
        /\ scopes = last.before
        /\ LET received == VisitExpression(last.before, last.node.rhs)
               name == last.node.name
           IN ~received.raised =>
                  IF Binders(last.before, name) = {}
                  THEN last.result = Raises(UndefinedVariableError(name, last.node.context))
                  ELSE LET declared == InnermostBinding(last.before, name)
                       IN IF declared = received.type
                          THEN last.result = Returns(VOID)
                          ELSE last.result =
                                   Raises(TypeMismatchError(declared, received.type,
                                                            last.node.context))

\* An i8 value was assigned to a variable that an inner scope binds to u8
\* and an outer scope to another type.
C21_Witness ==
    /\ AssignmentVisited
    /\ VisitExpression(last.before, last.node.rhs) = Returns(I8)
    /\ Cardinality(Binders(last.before, last.node.name)) = 2
    /\ InnermostBinding(last.before, last.node.name) = U8
    /\ last.before[1].variable_types[last.node.name] # U8
    /\ last.result = Raises(TypeMismatchError(U8, I8, last.node.context))


(***************************************************************************)
(* C22.  `let x: T = e` with x bound in no open scope, T a type the        *)
(* environment knows and e of some type: when T and the type of e are both *)
(* numerical (u8, i8) the let succeeds, also when they differ; otherwise   *)
(* it succeeds iff the two are equal and raises TypeMismatch(T, type of e) *)
(* if not.  On success x is bound to T in the current scope.               *)
(***************************************************************************)
LetVisited == last.visit = "statement" /\ last.node.node = "Let"

\* Whether the environment knows the declared type, and the type it denotes.
TypeKnown(ss, t) == t.k = "TypeIdentifier" => has_type(ss, t.name)
TypeDenoted(ss, t) == IF t.k = "TypeIdentifier" THEN resolve_type(ss, t) ELSE t

\* The scopes with the name bound to the type in the current scope.
BoundInCurrentScope(ss, name, t) ==
    [ss EXCEPT ![Len(ss)].variable_types =
        [n \in (DOMAIN @) \cup {name} |-> IF n = name THEN t ELSE @[n]]]

C22_LetAcceptsNumericals ==
    LET received == VisitExpression(last.before, last.node.rhs)
    IN (/\ LetVisited
        /\ Binders(last.before, last.node.name) = {}
        /\ TypeKnown(last.before, last.node.var_type)
        /\ ~received.raised) =>
           LET declared == TypeDenoted(last.before, last.node.var_type)
           IN IF \/ {declared, received.type} \subseteq {U8, I8}
                 \/ declared = received.type
              THEN /\ last.result = Returns(VOID)
                   /\ scopes = BoundInCurrentScope(last.before, last.node.name, declared)
              ELSE last.result = Raises(TypeMismatchError(declared, received.type,
                                                          last.node.context))

\* `let x: u8 = -1` succeeded and bound x to u8.
C22_Witness ==
    /\ LetVisited
    /\ last.node.var_type = U8
    /\ VisitExpression(last.before, last.node.rhs) = Returns(I8)
    /\ last.result = Returns(VOID)
    /\ Binders(last.before, "x") = {}
    /\ scopes[Len(scopes)].variable_types["x"] = U8


(***************************************************************************)
(* C23.  Addition: an error raised inside the left operand, else inside    *)
(* the right operand, propagates unchanged.  With both operands typed, a   *)
(* left operand that is not numerical raises ExpectedNumericalType(left    *)
(* type), else a right operand that is not numerical raises                *)
(* ExpectedNumericalType(right type), else two different numerical types   *)
(* raise TypeMismatch(left, right); otherwise the result is the type the   *)
(* operands share.                                                         *)
(***************************************************************************)
AdditionVisited == last.visit = "statement" /\ last.node.node = "Addition"

Numericals == {U8, I8}

C23_Addition ==
    AdditionVisited =>
        LET left == VisitExpression(last.before, last.node.lhs)
            right == VisitExpression(last.before, last.node.rhs)
        IN /\ left.raised => last.result = left
           /\ ~left.raised /\ right.raised => last.result = right
           /\ ~left.raised /\ ~right.raised =>
                  last.result =
                      IF left.type \notin Numericals
                      THEN Raises(ExpectedNumericalTypeError(left.type,
                                                             last.node.lhs.context))
                      ELSE IF right.type \notin Numericals
                      THEN Raises(ExpectedNumericalTypeError(right.type,
                                                             last.node.rhs.context))
                      ELSE IF left.type # right.type
                      THEN Raises(TypeMismatchError(left.type, right.type,
                                                    last.node.lhs.context))
                      ELSE Returns(left.type)

\* A u8 and an i8 were added.
C23_Witness ==
    /\ AdditionVisited
    /\ VisitExpression(last.before, last.node.lhs) = Returns(U8)
    /\ VisitExpression(last.before, last.node.rhs) = Returns(I8)
    /\ last.result = Raises(TypeMismatchError(U8, I8, last.node.lhs.context))


(***************************************************************************)
(* C24.  `if`: a condition whose type is not bool raises                   *)
(* TypeMismatch(bool, condition type) at the condition, and the            *)
(* consequence is not visited: nothing is declared and nothing else is     *)
(* reported.  With a bool condition a Block consequence is checked in a    *)
(* fresh scope of its own, and a consequence that is not a Block in the    *)
(* enclosing scope: a bare `let` under `if` declares its variable there.   *)
(***************************************************************************)
BareIfVisited == last.visit = "statement" /\ last.node.node = "If"

RefusedAt(condition, condition_type) ==
    Raises(TypeMismatchError(BOOL, condition_type, condition.context))

C24_If ==
    /\ BareIfVisited =>
           LET condition == VisitExpression(last.before, last.node.condition)
               consequence == VisitStatement(last.before, current_function_return_type,
                                             FALSE, last.node.consequence)
           IN /\ (~condition.raised /\ condition.type # BOOL) =>
                     /\ last.result = RefusedAt(last.node.condition, condition.type)
                     /\ scopes = last.before
              /\ condition = Returns(BOOL) =>
                     /\ scopes = consequence.scopes
                     /\ Len(scopes) = Len(last.before)
                     /\ last.result.raised = consequence.result.raised
                     /\ last.result.raised => last.result = consequence.result
                     /\ (last.node.consequence.node = "Let" /\ ~last.result.raised) =>
                            last.node.consequence.name
                                \in DOMAIN scopes[Len(last.before)].variable_types
    /\ last.visit = "if" =>
           LET condition == VisitExpression(last.before, last.condition)
           IN /\ ~condition.raised => /\ condition.type # BOOL
                                      /\ last.result = RefusedAt(last.condition,
                                                                 condition.type)
              /\ scopes = last.before
    /\ last.visit = "enter_block" =>
           /\ VisitExpression(last.before, last.condition) = Returns(BOOL)
           /\ scopes = Append(last.before, Scope)

\* A bare `let` under an `if` with a bool condition declared x in the scope
\* of the enclosing block, which is itself the Block of an `if`.
C24_Witness ==
    /\ BareIfVisited
    /\ VisitExpression(last.before, last.node.condition) = Returns(BOOL)
    /\ last.result = Returns(VOID)
    /\ Len(blocks) = 2
    /\ Binders(last.before, "x") = {}
    /\ Binders(scopes, "x") = {Len(last.before)}


(***************************************************************************)
(* C25.  A Return whose expression has another type than the declared      *)
(* return type of the current function raises TypeMismatch(declared,       *)
(* actual) and leaves the returned-flag as it was; a Return of the         *)
(* declared type sets the flag.  Once set the flag stays set while the     *)
(* same function is checked, and entering the next function clears it and  *)
(* sets the current return type to that function's.                        *)
(***************************************************************************)
ReturnStep ==
    /\ lineno' = lineno + 1
    /\ last'.visit = "statement"
    /\ last'.node.node = "Return"

C25_ReturnFlag ==
    [][ /\ ReturnStep =>
               LET actual == VisitExpression(scopes, last'.node.expr)
                   declared == current_function_return_type
               IN /\ (~actual.raised /\ actual.type # declared) =>
                         /\ last'.result = Raises(TypeMismatchError(declared, actual.type,
                                                                    last'.node.context))
                         /\ return_has_occured' = return_has_occured
                  /\ actual = Returns(declared) =>
                         /\ last'.result = Returns(VOID)
                         /\ return_has_occured'
        /\ (return_has_occured /\ functions' = functions) => return_has_occured'
        /\ functions' # functions =>
               /\ ~return_has_occured'
               /\ current_function_return_type' = functions'[Len(functions')].return_type
      ]_vars

\* The first function returned a u8 as declared; in the second function a
\* Return of the wrong type is the only Return so far, and the flag is clear.
C25_Witness ==
    /\ Len(functions) = 2
    /\ functions[1].return_type = U8
    /\ program_errors = <<>>
    /\ last.visit = "statement"
    /\ last.node.node = "Return"
    /\ last.result.raised
    /\ last.result.error.e = "TypeMismatch"
    /\ ~return_has_occured


(***************************************************************************)
(* C28.  A `let` that fails with an error of its right-hand side, with     *)
(* AlreadyDefinedVariable or with UndefinedType changes no scope:          *)
(* `let x: u8 = x` with x unbound raises UndefinedVariable and x stays     *)
(* unbound.  A `let` whose own comparison of the types fails with          *)
(* TypeMismatch has bound x to the declared type in the current scope.     *)
(***************************************************************************)
C28_FailedLet ==
    LetVisited =>
        LET received == VisitExpression(last.before, last.node.rhs)
            name == last.node.name
            fresh == Binders(last.before, name) = {}
            known == TypeKnown(last.before, last.node.var_type)
        IN /\ received.raised =>
                  last.result = received /\ scopes = last.before
           /\ (~received.raised /\ ~fresh) =>
                  /\ last.result = Raises(AlreadyDefinedVariableError(name,
                                                                      last.node.context))
                  /\ scopes = last.before
           /\ (~received.raised /\ fresh /\ ~known) =>
                  /\ last.result = Raises(UndefinedTypeError(last.node.var_type,
                                                             last.node.context))
                  /\ scopes = last.before
           /\ (~received.raised /\ last.result.raised
                   /\ last.result.error.e = "TypeMismatch") =>
                  scopes = BoundInCurrentScope(last.before, name,
                                               TypeDenoted(last.before,
                                                           last.node.var_type))

\* `let x: bool = 1` failed with TypeMismatch and x, unbound before, is
\* bound to bool.
C28_Witness ==
    /\ LetVisited
    /\ last.result = Raises(TypeMismatchError(BOOL, U8, last.node.context))
    /\ Binders(last.before, "x") = {}
    /\ get_variable_type(scopes, "x", last.node.context) = Returns(BOOL)


(***************************************************************************)
(* C29.  Sibling functions are isolated: while the body of a function is   *)
(* checked, a name resolves only if it is a function registered so far, a  *)
(* parameter of that function or a variable one of its own `let`s          *)
(* declared, also when an earlier function failed.  The function's own     *)
(* parameters and variables are in the scopes its visit pushed.            *)
(***************************************************************************)
RegisteredFunctions == { functions[k].name : k \in 1..Len(functions) }
OwnNames ==
    UNION { DOMAIN scopes[i].variable_types : i \in (function.started + 1)..Len(scopes) }
ResolvingNames ==
    UNION { DOMAIN scopes[i].variable_types : i \in 1..Len(scopes) }

C29_SiblingsIsolated ==
    pc = "block" => ResolvingNames \subseteq RegisteredFunctions \cup OwnNames


(***************************************************************************)
(* C26.  Blank lines are transparent to indentation: when what follows a   *)
(* newline is spaces only, in any number, and then another newline, the    *)
(* scanner emits no INDENT and no DEDENT, raises no UnevenIndentError and  *)
(* leaves the indentation level as it was.                                 *)
(***************************************************************************)
C26_BlankLinesTransparent ==
    (/\ last.visit = "consume_possible_indentations"
     /\ BlankLine(last.remaining_source)) =>
        /\ last.indents = <<>>
        /\ ~last.raised
        /\ scanner.pc # "raised"
        /\ scanner.indent_level = last.indent_level

\* A blank line of two spaces was met at indentation level 1 and the scan
\* has gone on over its spaces to the newline that ends it.
C26_Witness ==
    /\ last.visit = "consume_possible_indentations"
    /\ BlankLine(last.remaining_source)
    /\ LeadingSpaces(last.remaining_source) = 2
    /\ last.indent_level = 1
    /\ scanner.pc = "scanning"
    /\ remaining_source(scanner) = SubSeq(last.remaining_source, 3,
                                          Len(last.remaining_source))
    /\ CountOf("INDENT", scanner.produced_tokens) = 1
    /\ CountOf("DEDENT", scanner.produced_tokens) = 0


(***************************************************************************)
(* C30.  In the tokens of every scan that returns, INDENT and DEDENT are   *)
(* balanced: no prefix of the tokens holds more DEDENT than INDENT tokens, *)
(* and up to EOF there are as many of the one as of the other, also when   *)
(* the last line is indented and no newline follows it.                    *)
(***************************************************************************)
C30_IndentsBalanced ==
    scanner.pc = "returned" =>
        /\ \A n \in 0..Len(scanner.tokens) :
              CountOf("DEDENT", SubSeq(scanner.tokens, 1, n))
                  <= CountOf("INDENT", SubSeq(scanner.tokens, 1, n))
        /\ CountOf("DEDENT", scanner.tokens) = CountOf("INDENT", scanner.tokens)


(***************************************************************************)
(* C27.  The label counter of the code generator is never incremented:     *)
(* across any sequence of make_label calls _LABEL keeps its initial value, *)
(* so that every `if` gets the same label and the labels of distinct       *)
(* `if` statements collide.                                                *)
(***************************************************************************)
LabelsPrinted ==
    { codegen.output[i].label :
      i \in { j \in 1..Len(codegen.output) : codegen.output[j].line = "label" } }
LabelsJumpedTo ==
    { codegen.output[i].label :
      i \in { j \in 1..Len(codegen.output) : codegen.output[j].line = "jp nz" } }

C27_LabelCounterConstant ==
    codegen.pc # "none" =>
        /\ codegen.LABEL = Codegen.LABEL
        /\ LabelsJumpedTo \cup LabelsPrinted \subseteq { <<"LB", Codegen.LABEL>> }

\* Three `if`s were generated, two of them nested and one behind them, and
\* one and the same label was printed three times.
C27_Witness ==
    /\ codegen.pc = "block"
    /\ codegen.made = 3
    /\ codegen.open = <<>>
    /\ Cardinality({ i \in 1..Len(codegen.output) : codegen.output[i].line = "label" }) = 3
    /\ \E i \in 1..Len(codegen.output) - 1 :
          codegen.output[i].line = "label" /\ codegen.output[i + 1].line = "label"
    /\ Cardinality(LabelsPrinted) = 1

====
